---------------------------- MODULE Spec2Model ----------------------------
(***************************************************************************)
(* A state-machine model of the ReGenesis desktop application              *)
(* (src/regenesis_gui.py, src/preferences_manager.py, src/regenesis.py).   *)
(*                                                                         *)
(* Conventions                                                             *)
(*   - Tree item ids are the naturals 1, 2, ... in the order the Treeview  *)
(*     hands them out ("I001", "I002", ...); 0 stands for both the hidden  *)
(*     root '' of the Treeview and Python's None (both are falsy in the    *)
(*     code's tests `if item:` / `if not self.tree.parent(item):`).        *)
(*   - Python floats are modelled as exact rationals <<n, d>>, d > 0, in   *)
(*     lowest terms.                                                       *)
(*   - Pixel points are pairs <<x, y>> of integers; canvas sizes are even  *)
(*     so that the canvas centre (width / 2, height / 2) is integral.      *)
(*   - Python list indices are 0-based; the sequence element at Python     *)
(*     index i is seq[i + 1].                                              *)
(*   - A <<TreeviewSelect>> virtual event generated by                     *)
(*     tree.selection_set(...) is queued by Tk and handled later;          *)
(*     select_pending says that such an event is in the queue.             *)
(***************************************************************************)
EXTENDS Integers, Sequences, FiniteSets, TLC

(***************************************************************************)
(* Bounds of the model (not program constants).                            *)
(***************************************************************************)
\* Largest tree item id the Treeview hands out in a run.
MaxItems == 4
\* Largest number of wheel / menu zoom steps in a run.
MaxZoomSteps == 2
\* Largest number of preference writes in a run.
MaxPrefCalls == 3
\* Largest number of canvas editing gestures (click with its drags, Ctrl-click,
\* Clear Shape) in a run.
MaxEdits == 2
\* Number of plants of the database kept (the first of the nine plant names).
NumPlants == 2
\* Largest number of entries of selected_plants in a run.
MaxSelected == 2

(***************************************************************************)
(* Program constants.                                                      *)
(***************************************************************************)
\* _find_vertex_at / _find_edge_at: threshold=10
VertexThreshold == 10
\* _on_drag_motion: dx > 5 or dy > 5
DragThreshold == 5
\* _on_canvas_right_click: len(self.polygon_vertices) <= 3
MinVertices == 3
\* _insert_vertex_on_edge: len(self.polygon_vertices) >= 15
MaxVertices == 15
\* _create_default_rectangle: rect_width = 200, rect_height = 150
DefaultRectWidth == 200
DefaultRectHeight == 150
\* _update_workspace: width < 10 or height < 10
MinCanvasSize == 10
\* _update_workspace: retry_count < 50
MaxRetries == 50
\* 50 pixels = 1 unit at zoom 1.0
PixelsPerUnit == 50
\* self.selected_vertex = None
NoVertex == -1

(***************************************************************************)
(* Exact rational arithmetic for the code's float computations.            *)
(***************************************************************************)
RECURSIVE GCD(_, _)
GCD(a, b) == IF b = 0 THEN a ELSE GCD(b, a % b)

Abs(a) == IF a < 0 THEN -a ELSE a

Rat(n, d) ==
    LET g == GCD(Abs(n), Abs(d))
        s == IF d < 0 THEN -1 ELSE 1
    IN  <<(s * n) \div g, (s * d) \div g>>

RInt(n) == <<n, 1>>
RAdd(p, q) ==
    \* over the least common denominator, so that the products stay small
    LET g == GCD(p[2], q[2])
    IN  Rat(p[1] * (q[2] \div g) + q[1] * (p[2] \div g), (p[2] \div g) * q[2])
RNeg(p) == <<-p[1], p[2]>>
RSub(p, q) == RAdd(p, RNeg(q))
RMul(p, q) ==
    \* cross-cancel first so that the products stay small
    LET a == Rat(p[1], q[2])
        b == Rat(q[1], p[2])
    IN  Rat(a[1] * b[1], a[2] * b[2])
RDiv(p, q) == RMul(p, <<q[2], q[1]>>)
\* a/b < c/d for b, d > 0, by integer parts and then the reciprocals of the
\* fractional parts, without cross-multiplying
RECURSIVE Less(_, _, _, _)
Less(a, b, c, d) ==
    LET qa == a \div b
        qc == c \div d
        ra == a - qa * b
        rc == c - qc * d
    IN  IF qa # qc THEN qa < qc
        ELSE IF rc = 0 THEN FALSE
        ELSE IF ra = 0 THEN TRUE
        ELSE Less(d, rc, b, ra)
RLt(p, q) == Less(p[1], p[2], q[1], q[2])
RLe(p, q) == ~RLt(q, p)
RMin(p, q) == IF RLt(q, p) THEN q ELSE p
RMax(p, q) == IF RLt(p, q) THEN q ELSE p

\* zoom limits 0.01 and 10.0, zoom factors 1.1 and 0.9, margin factor 1.2
ZoomMin == <<1, 100>>
ZoomMax == <<10, 1>>
ZoomInFactor == <<11, 10>>
ZoomOutFactor == <<9, 10>>
MarginFactor == <<6, 5>>


(***************************************************************************)
(* The Treeview widget self.tree.                                          *)
(*   tree.parent[i]    parent of item i (0: a top-level item)              *)
(*   tree.children[i]  ordered children of item i (and of the root 0)      *)
(*   tree.data[i]      text and values of item i                           *)
(*   tree.next         the id the next tree.insert hands out               *)
(***************************************************************************)
Num(n, d) == [kind |-> "num", val |-> Rat(n, d)]
EmptyStr == [kind |-> "empty", val |-> <<0, 1>>]
\* a non-empty string float() rejects, such as 'loam' or 'full-sun'
TextStr == [kind |-> "text", val |-> <<0, 1>>]

\* values=('project', lat, lon, width, length, units): values[3], values[4]
ProjectData(text, w, l) == [text |-> text, type |-> "project", width |-> w, length |-> l]
\* values=('region', region_type, soil_moisture, soil_type, sun):
\* values[3] and values[4] are the soil type and the sun exposure
RegionData(text) == [text |-> text, type |-> "region", width |-> TextStr, length |-> TextStr]

EmptyTree ==
    [parent |-> [i \in {} |-> 0], children |-> [i \in {0} |-> <<>>],
     data |-> [i \in {} |-> 0], next |-> 1]

Items(t) == DOMAIN t.parent

Range(s) == {s[k] : k \in DOMAIN s}

\* tree.exists(item)
TreeExists(t, item) == item \in Items(t)

\* tree.insert(parent, index, ...): index is 0-based, 'end' is Len(children)
TreeInsert(t, parent, index, d) ==
    LET id == t.next
        kids == t.children[parent]
        k == IF index > Len(kids) THEN Len(kids) ELSE index
        newkids == SubSeq(kids, 1, k) \o <<id>> \o SubSeq(kids, k + 1, Len(kids))
    IN  [parent |-> [i \in Items(t) \cup {id} |-> IF i = id THEN parent ELSE t.parent[i]],
         children |-> [i \in DOMAIN t.children \cup {id} |->
                          IF i = id THEN <<>>
                          ELSE IF i = parent THEN newkids ELSE t.children[i]],
         data |-> [i \in Items(t) \cup {id} |-> IF i = id THEN d ELSE t.data[i]],
         next |-> id + 1]

RECURSIVE Subtree(_, _)
\* an item with all its descendants
Subtree(t, item) ==
    {item} \cup UNION {Subtree(t, c) : c \in Range(t.children[item])}

RECURSIVE Without(_, _)
Without(s, D) ==
    IF s = <<>> THEN <<>>
    ELSE IF Head(s) \in D THEN Without(Tail(s), D)
         ELSE <<Head(s)>> \o Without(Tail(s), D)

\* tree.delete(item): the item and all its descendants leave the tree
TreeDelete(t, item) ==
    LET D == Subtree(t, item)
        keep == Items(t) \ D
    IN  [parent |-> [i \in keep |-> t.parent[i]],
         children |-> [i \in keep \cup {0} |-> Without(t.children[i], D)],
         data |-> [i \in keep |-> t.data[i]],
         next |-> t.next]

\* tree.index(item): 0-based position among its siblings
TreeIndex(t, item) ==
    LET kids == t.children[t.parent[item]]
    IN  (CHOOSE k \in DOMAIN kids : kids[k] = item) - 1

\* _is_descendant(parent_item, child_item): child_item is parent_item or below it
RECURSIVE IsDescendant(_, _, _)
IsDescendant(t, parent_item, child_item) ==
    IF child_item = 0 THEN FALSE
    ELSE IF child_item = parent_item THEN TRUE
         ELSE IsDescendant(t, parent_item, t.parent[child_item])

RECURSIVE CloneSubtree(_, _, _, _)
RECURSIVE CloneChildren(_, _, _)
\* _clone_subtree(item, new_parent, index); the new item's id is t.next
CloneSubtree(t, item, new_parent, index) ==
    LET new_item == t.next
        t1 == TreeInsert(t, new_parent, index, t.data[item])
    IN  CloneChildren(t1, t.children[item], new_item)

\* for child in self.tree.get_children(item): self._clone_subtree(child, new_item, 'end')
CloneChildren(t, kids, new_item) ==
    IF kids = <<>> THEN t
    ELSE CloneChildren(CloneSubtree(t, Head(kids), new_item, Len(t.children[new_item])),
                       Tail(kids), new_item)

\* number of items of a subtree (the ids a clone of it consumes)
SubtreeSize(t, item) == Cardinality(Subtree(t, item))

(***************************************************************************)
(* Project files (the JSON written by _save_tree_to_file): a sequence of   *)
(* item_data records [data, children].                                     *)
(***************************************************************************)
Leaf(d) == [data |-> d, children |-> <<>>]
Node(d, kids) == [data |-> d, children |-> kids]
\* an item_data object without its 'text', 'values' or 'tags' key
Keyless(kids) == [children |-> kids]

\* What the file at a path can be: a JSON object {'tree': items}, a JSON
\* document that is no object, text that is not JSON, a file that cannot be
\* read, or (for the path of File > Save As) no file yet.
TreeFile(items) == [kind |-> "tree", tree |-> items]
JsonList == [kind |-> "list", tree |-> <<>>]
InvalidJson == [kind |-> "invalid", tree |-> <<>>]
Unreadable == [kind |-> "unreadable", tree |-> <<>>]
NotSaved == [kind |-> "absent", tree |-> <<>>]

RECURSIVE SerializeItem(_, _)
\* serialize_item(item_id)
SerializeItem(t, item_id) ==
    [data |-> t.data[item_id],
     children |-> [k \in DOMAIN t.children[item_id] |->
                      SerializeItem(t, t.children[item_id][k])]]

\* root_items of _save_tree_to_file
SerializeTree(t) ==
    [k \in DOMAIN t.children[0] |-> SerializeItem(t, t.children[0][k])]

RECURSIVE DeserializeItem(_, _, _)
RECURSIVE DeserializeItems(_, _, _)
\* deserialize_item with the new item put before its siblings
DeserializeItemFirst(st, item_data, parent) ==
    IF st.raised THEN st
    ELSE IF "data" \notin DOMAIN item_data THEN [st EXCEPT !.raised = TRUE]
    ELSE LET item_id == st.tree.next
             t1 == TreeInsert(st.tree, parent, 0, item_data.data)
         IN  DeserializeItems([st EXCEPT !.tree = t1], item_data.children, item_id)

\* deserialize_item(item_data, parent) on st = [tree, raised]: the tree so
\* far and whether item_data['text'], ['values'] or ['tags'] has raised
\* KeyError, which ends the load
DeserializeItem(st, item_data, parent) ==
    IF st.raised THEN st
    ELSE IF "data" \notin DOMAIN item_data THEN [st EXCEPT !.raised = TRUE]
    ELSE LET item_id == st.tree.next
             t1 == TreeInsert(st.tree, parent, Len(st.tree.children[parent]),
                              item_data.data)
         IN  DeserializeItems([st EXCEPT !.tree = t1], item_data.children, item_id)

DeserializeItems(st, datas, parent) ==
    IF datas = <<>> THEN st
    ELSE DeserializeItems(DeserializeItem(st, Head(datas), parent), Tail(datas), parent)

RECURSIVE DeleteAll(_, _)
\* for item in self.tree.get_children(''): self.tree.delete(item)
DeleteAll(t, tops) ==
    IF tops = <<>> THEN t ELSE DeleteAll(TreeDelete(t, Head(tops)), Tail(tops))

\* _load_tree_from_file(filepath) with the file holding `content`: the tree
\* afterwards and whether an exception left the function.  open() and
\* json.load() come first, then the tree is cleared, then
\* project_data.get('tree', []) is read and its items are inserted.
LoadTreeFromFile(t, content) ==
    IF content.kind \in {"absent", "unreadable", "invalid"}
    THEN [tree |-> t, raised |-> TRUE]
    ELSE LET cleared == DeleteAll(t, t.children[0])
         IN  IF content.kind = "list"
             THEN [tree |-> cleared, raised |-> TRUE]
             ELSE DeserializeItems([tree |-> cleared, raised |-> FALSE],
                                   content.tree, 0)

RECURSIVE FileSize(_)
RECURSIVE FilesSize(_)
FileSize(item_data) == 1 + FilesSize(item_data.children)
FilesSize(datas) == IF datas = <<>> THEN 0 ELSE FileSize(Head(datas)) + FilesSize(Tail(datas))


(***************************************************************************)
(* Polygon geometry (pixel points <<x, y>>).                               *)
(***************************************************************************)
Sq(a) == a * a

\* dist <= threshold for dist = ((x - vx) ** 2 + (y - vy) ** 2) ** 0.5
Near(p, v, threshold) == Sq(p[1] - v[1]) + Sq(p[2] - v[2]) <= Sq(threshold)

\* _find_vertex_at(x, y): the first Python index whose vertex is within the
\* threshold, NoVertex for None
FindVertexAt(vertices, p) ==
    LET hits == {i \in DOMAIN vertices : Near(p, vertices[i], VertexThreshold)}
    IN  IF hits = {} THEN NoVertex
        ELSE (CHOOSE i \in hits : \A j \in hits : i <= j) - 1

\* _point_to_segment_distance(px, py, x1, y1, x2, y2) <= threshold.
\* With dot = (p - p1).(p2 - p1) and len2 = |p2 - p1|^2 the code's clamped
\* parameter t = max(0, min(1, dot / len2)) is 0 when dot <= 0, 1 when
\* dot >= len2, and otherwise the closest point is the foot of the
\* perpendicular, whose squared distance from p is cross^2 / len2.
SegmentNear(p, p1, p2, threshold) ==
    LET dx == p2[1] - p1[1]
        dy == p2[2] - p1[2]
        dot == (p[1] - p1[1]) * dx + (p[2] - p1[2]) * dy
        len2 == dx * dx + dy * dy
        cross == (p[1] - p1[1]) * dy - (p[2] - p1[2]) * dx
    IN  IF dx = 0 /\ dy = 0 THEN Near(p, p1, threshold)
        ELSE IF dot <= 0 THEN Near(p, p1, threshold)
        ELSE IF dot >= len2 THEN Near(p, p2, threshold)
        ELSE Abs(cross) <= 46340 /\ Sq(cross) <= Sq(threshold) * len2

\* _find_edge_at(x, y): the first Python index i whose edge from vertex i to
\* vertex (i + 1) % n is within the threshold, NoVertex for None
FindEdgeAt(vertices, p) ==
    LET n == Len(vertices)
        hits == {i \in 1..n :
                    SegmentNear(p, vertices[i], vertices[(i % n) + 1], VertexThreshold)}
    IN  IF n < 2 \/ hits = {} THEN NoVertex
        ELSE (CHOOSE i \in hits : \A j \in hits : i <= j) - 1

\* list.insert(idx, v) for 0 <= idx <= len
ListInsert(seq, idx, v) == SubSeq(seq, 1, idx) \o <<v>> \o SubSeq(seq, idx + 1, Len(seq))

\* del list[idx]
ListDelete(seq, idx) == SubSeq(seq, 1, idx) \o SubSeq(seq, idx + 2, Len(seq))

\* the four corners of a rect_width x rect_height rectangle centred on the
\* canvas, clockwise from top-left (_create_default_rectangle)
CenteredRectangle(size, rect_width, rect_height) ==
    LET center_x == size[1] \div 2
        center_y == size[2] \div 2
        x1 == center_x - rect_width \div 2
        y1 == center_y - rect_height \div 2
        x2 == center_x + rect_width \div 2
        y2 == center_y + rect_height \div 2
    IN  <<<<x1, y1>>, <<x2, y1>>, <<x2, y2>>, <<x1, y2>>>>


(***************************************************************************)
(* State of the application.                                               *)
(***************************************************************************)
VARIABLES
    \* the project tree widget and its event state
    tree,                  \* self.tree (see above)
    selection,             \* self.tree.selection(): the selected item, 0 if none
    select_pending,        \* a <<TreeviewSelect>> event is queued
    menu_posted,           \* the context menu built by _show_context_menu is up
    mouse,                 \* "up", or the widget button 1 is held down in
    current_file,          \* self.current_file (0: None, else the file's number)
    \* RegenesisGUI fields
    selected_item,         \* self.selected_item (0: None)
    drag_item,             \* self._drag_item (0: None)
    drop_target,           \* self._drop_target (0: None)
    drop_position,         \* self._drop_position ("none": None)
    has_moved,             \* self._has_moved
    drag_start,            \* <<self._drag_start_x, self._drag_start_y>>
    drawing_mode,          \* self.drawing_mode
    polygon_vertices,      \* self.polygon_vertices
    selected_vertex,       \* self.selected_vertex (NoVertex: None)
    dragging_vertex,       \* self._dragging_vertex
    region_polygons,       \* self.region_polygons
    clear_button_visible,  \* self._clear_button_visible
    clear_button_enabled,  \* state of self.clear_polygon_button is NORMAL
    canvas_size,           \* <<canvas.winfo_width(), canvas.winfo_height()>>
    canvas_zoom,           \* self.canvas_zoom
    canvas_pan_x,          \* self.canvas_pan_x
    canvas_pan_y,          \* self.canvas_pan_y
    has_auto_zoomed,       \* self._has_auto_zoomed
    current_project_item,  \* self._current_project_item (0: None)
    is_panning,            \* self._is_panning
    pan_start,             \* <<self._pan_start_x, self._pan_start_y>>
    retries,               \* pending root.after(100, ...) retries of _update_workspace
    \* PreferencesManager
    preferences,           \* self.preferences
    prefs_file,            \* content of ~/.regenesis/preferences.json
    raised,                \* the exception the last PreferencesManager call raised
    \* history and bookkeeping
    editing,               \* the item polygon_vertices was last loaded for (0: none)
    shown_polygon,         \* per region: polygon_vertices when it was last edited
    \* the canvas items of the edited polygon
    handles_origin,        \* the vertices the self.vertex_handles ovals were created at
    handles_moved,         \* <<scale, dx, dy>>: what canvas.scale and canvas.move
                           \* have done to them since: v is shown at scale * v + (dx, dy)
    handles_home,          \* they were created with pan (0, 0) and zoom 1.0
    project_boundary,      \* an item tagged 'project_boundary' is on the canvas
    drawn_projects,        \* the items of the tree whose rectangle has been drawn
    workspace_drawn,       \* the last _update_workspace got past the size test
                           \* and drew the origin marker and the rulers
    sizing_failed,         \* "Canvas failed to size properly" has been logged
    edits,                 \* number of polygon edits so far
    zoom_steps,            \* number of zoom steps so far
    pref_calls,            \* number of preference writes so far
    \* outside the window object
    saved_file,            \* content of the file written by File > Save As
    message,               \* title of the last message box of _open_project
    other_preferences,     \* self.preferences of the PreferencesManager of the
                           \* window started by File > New Window
    plot_file,             \* content of the file written by save_to_file
    \* Regenesis (self.app)
    plants,                \* self.plant_container.plants
    selected_plants,       \* self.selected_plants
    plot_width,            \* self.plot_width (<<>>: None, <<n>>: the number n)
    plot_height,           \* self.plot_height
    returned               \* the last call of a function and the value it returned

itemVars == <<handles_origin, handles_moved, handles_home, project_boundary,
              drawn_projects, workspace_drawn, sizing_failed>>
treeVars == <<tree, selection, select_pending, menu_posted, mouse, current_file>>
dragVars == <<drag_item, drop_target, drop_position, has_moved, drag_start>>
guiVars == <<selected_item, drawing_mode, polygon_vertices, selected_vertex,
             dragging_vertex, region_polygons, clear_button_visible,
             clear_button_enabled, canvas_zoom, has_auto_zoomed,
             current_project_item, retries, editing, shown_polygon, itemVars>>
viewVars == <<canvas_size, canvas_pan_x, canvas_pan_y, is_panning, pan_start, zoom_steps>>
prefVars == <<preferences, prefs_file, raised, pref_calls>>
worldVars == <<saved_file, message, other_preferences, plot_file>>
plantVars == <<plants, selected_plants, plot_width, plot_height, returned>>
vars == <<treeVars, dragVars, guiVars, viewVars, prefVars, worldVars, plantVars, edits>>

(***************************************************************************)
(* The fields of the RegenesisGUI object that _on_tree_select and          *)
(* _update_workspace read and write, as one record, so that a handler and  *)
(* the methods it calls compose as functions on it.                        *)
(***************************************************************************)
GUI ==
    [selected_item |-> selected_item,
     drawing_mode |-> drawing_mode,
     polygon_vertices |-> polygon_vertices,
     selected_vertex |-> selected_vertex,
     dragging_vertex |-> dragging_vertex,
     region_polygons |-> region_polygons,
     clear_button_visible |-> clear_button_visible,
     clear_button_enabled |-> clear_button_enabled,
     canvas_zoom |-> canvas_zoom,
     has_auto_zoomed |-> has_auto_zoomed,
     current_project_item |-> current_project_item,
     retries |-> retries,
     editing |-> editing,
     handles_moved |-> handles_moved,
     handles_origin |-> handles_origin,
     handles_home |-> handles_home,
     project_boundary |-> project_boundary,
     drawn_projects |-> drawn_projects,
     workspace_drawn |-> workspace_drawn,
     sizing_failed |-> sizing_failed]

\* dict[key] = value
DictSet(d, key, value) ==
    [k \in DOMAIN d \cup {key} |-> IF k = key THEN value ELSE d[k]]

SetGUI(s) ==
    /\ selected_item' = s.selected_item
    /\ drawing_mode' = s.drawing_mode
    /\ polygon_vertices' = s.polygon_vertices
    /\ selected_vertex' = s.selected_vertex
    /\ dragging_vertex' = s.dragging_vertex
    /\ region_polygons' = s.region_polygons
    /\ clear_button_visible' = s.clear_button_visible
    /\ clear_button_enabled' = s.clear_button_enabled
    /\ canvas_zoom' = s.canvas_zoom
    /\ has_auto_zoomed' = s.has_auto_zoomed
    /\ current_project_item' = s.current_project_item
    /\ retries' = s.retries
    /\ editing' = s.editing
    /\ handles_moved' = s.handles_moved
    /\ handles_origin' = s.handles_origin
    /\ handles_home' = s.handles_home
    /\ project_boundary' = s.project_boundary
    /\ drawn_projects' = s.drawn_projects
    /\ workspace_drawn' = s.workspace_drawn
    /\ sizing_failed' = s.sizing_failed
    /\ shown_polygon' = IF s.drawing_mode /\ s.editing # 0
                        THEN DictSet(shown_polygon, s.editing, s.polygon_vertices)
                        ELSE shown_polygon

\* _find_project_root(): the top-level ancestor of selected_item (0: None)
RECURSIVE TopAncestor(_, _)
TopAncestor(t, item) ==
    IF t.parent[item] = 0 THEN item ELSE TopAncestor(t, t.parent[item])

FindProjectRoot(t, s) ==
    IF s.selected_item = 0 THEN 0 ELSE TopAncestor(t, s.selected_item)

\* _draw_project_rectangle, the auto-zoom it computes: the canvas size over
\* the rectangle's current pixel size enlarged by the margin, clamped to the
\* zoom limits
AutoZoom(zoom, project_width, project_length, size) ==
    LET pixels_per_unit == RMul(RInt(PixelsPerUnit), zoom)
        rect_width == RMul(project_width, pixels_per_unit)
        rect_height == RMul(project_length, pixels_per_unit)
        required_width == RMul(rect_width, MarginFactor)
        required_height == RMul(rect_height, MarginFactor)
        zoom_for_width == RDiv(RInt(size[1]), required_width)
        zoom_for_height == RDiv(RInt(size[2]), required_height)
        auto_zoom == RMin(zoom_for_width, zoom_for_height)
    IN  RMax(ZoomMin, RMin(ZoomMax, auto_zoom))

\* float(width_str) and float(length_str) succeed and both are positive
DrawableDims(d) ==
    /\ d.width.kind = "num" /\ d.length.kind = "num"
    /\ RLt(<<0, 1>>, d.width.val) /\ RLt(<<0, 1>>, d.length.val)

\* _draw_project_rectangle(project_item, width, height, center_x, center_y)
DrawProjectRectangle(s, t, project_item, size) ==
    LET d == t.data[project_item]
        drawn == [s EXCEPT !.project_boundary = TRUE,
                           !.drawn_projects = (@ \cap Items(t)) \cup {project_item}]
    IN  IF ~DrawableDims(d) THEN s
        ELSE IF s.has_auto_zoomed THEN drawn
        ELSE LET auto_zoom == AutoZoom(s.canvas_zoom, d.width.val, d.length.val, size)
             IN  [drawn EXCEPT !.canvas_zoom = IF RLt(auto_zoom, @) THEN auto_zoom ELSE @,
                               !.has_auto_zoomed = TRUE]

\* canvas items that were neither scaled nor moved
NotMoved == << <<1, 1>>, <<0, 1>>, <<0, 1>> >>

\* _redraw_polygon(): the old polygon and handles are deleted; with three or
\* more vertices a new polygon and one handle per vertex are created at
\* polygon_vertices, whatever the pan and zoom are
RedrawPolygon(s) ==
    IF Len(s.polygon_vertices) < MinVertices
    THEN [s EXCEPT !.handles_origin = <<>>,
                   !.handles_moved = NotMoved,
                   !.handles_home = FALSE]
    ELSE [s EXCEPT !.handles_origin = s.polygon_vertices,
                   !.handles_moved = NotMoved,
                   !.handles_home = /\ canvas_pan_x = <<0, 1>>
                                    /\ canvas_pan_y = <<0, 1>>
                                    /\ s.canvas_zoom = <<1, 1>>]

\* _update_rulers(), what it does on the canvas: the project rectangle is
\* drawn again if a project with a positive width and length is selected and
\* the editor is not in drawing mode
RulersRedraw(t, item, drawing) ==
    /\ item # 0 /\ TreeExists(t, item)
    /\ ~drawing
    /\ t.data[item].type = "project"
    /\ DrawableDims(t.data[item])

\* the deletions of handles in _clear_polygon and _redraw_polygon
DeleteHandles(s) ==
    [s EXCEPT !.handles_origin = <<>>,
              !.handles_moved = NotMoved,
              !.handles_home = FALSE]

\* _clear_polygon()
ClearPolygon(s) ==
    [DeleteHandles(s) EXCEPT !.polygon_vertices = <<>>,
              !.selected_vertex = NoVertex,
              !.dragging_vertex = FALSE,
              !.clear_button_enabled = FALSE]

\* _create_default_rectangle() that clears the polygon and builds none
CreateNoRectangle(s, t, size) ==
    [ClearPolygon(s) EXCEPT !.clear_button_visible = TRUE,
                            !.clear_button_enabled = TRUE,
                            !.editing = s.selected_item]

\* _create_default_rectangle(); selected_item is 0 or an existing item here
CreateDefaultRectangle(s, t, size) ==
    LET d == t.data[s.selected_item]
        from_project ==
            /\ s.selected_item # 0
            /\ d.type = "project"
            /\ d.width.kind = "num" /\ d.length.kind = "num"
        \* rect_width = project_width * 50 (whole pixels in this model)
        rect_width == IF from_project
                      THEN RMul(d.width.val, RInt(PixelsPerUnit))[1]
                      ELSE DefaultRectWidth
        rect_height == IF from_project
                       THEN RMul(d.length.val, RInt(PixelsPerUnit))[1]
                       ELSE DefaultRectHeight
    IN  RedrawPolygon(
            [ClearPolygon(s) EXCEPT
                !.polygon_vertices = CenteredRectangle(size, rect_width, rect_height),
                !.clear_button_visible = TRUE,
                !.clear_button_enabled = TRUE,
                !.editing = s.selected_item])

\* _update_workspace(name, item_type, retry_count)
UpdateWorkspace(s, t, size, item_type, retry_count) ==
    \* canvas.delete('all')
    LET s0 == [DeleteHandles(s) EXCEPT !.project_boundary = FALSE,
                                       !.workspace_drawn = FALSE] IN
    IF size[1] < MinCanvasSize \/ size[2] < MinCanvasSize
    THEN IF retry_count < MaxRetries
         THEN [s0 EXCEPT !.retries = @ \cup {[item_type |-> item_type,
                                              retry_count |-> retry_count + 1]}]
         ELSE [s0 EXCEPT !.sizing_failed = TRUE]
    ELSE IF s0.selected_item # 0 /\ ~TreeExists(t, s0.selected_item)
    THEN s0   \* tree.parent(...) raises TclError in _find_project_root
    ELSE
    LET project_item == FindProjectRoot(t, s0)
        s_drawn == IF project_item = 0 THEN s0
                   ELSE DrawProjectRectangle(
                            IF project_item # s0.current_project_item
                            THEN [s0 EXCEPT !.current_project_item = project_item,
                                            !.has_auto_zoomed = FALSE]
                            ELSE s0,
                            t, project_item, size)
        s1 == [s_drawn EXCEPT !.project_boundary =
                  @ \/ RulersRedraw(t, s_drawn.selected_item, s_drawn.drawing_mode),
                              !.workspace_drawn = TRUE]
    IN  IF item_type # "region" THEN s1
        ELSE IF s1.selected_item \in DOMAIN s1.region_polygons
        THEN RedrawPolygon(
                 [s1 EXCEPT !.drawing_mode = TRUE,
                            !.polygon_vertices = s1.region_polygons[s1.selected_item],
                            !.clear_button_visible = TRUE,
                            !.clear_button_enabled = TRUE,
                            !.editing = s1.selected_item])
        ELSE CreateDefaultRectangle([s1 EXCEPT !.drawing_mode = TRUE], t, size)

\* _on_tree_select(event), with sel the widget's selection
TreeSelectHandler(s, t, size, sel) ==
    LET s1 == IF s.drawing_mode /\ s.selected_item # 0 /\ s.polygon_vertices # <<>>
              THEN [s EXCEPT !.region_polygons =
                                 DictSet(@, s.selected_item, s.polygon_vertices)]
              ELSE s
        s2 == IF s1.drawing_mode
              THEN [s1 EXCEPT !.drawing_mode = FALSE,
                              !.clear_button_visible = FALSE,
                              !.editing = 0]
              ELSE s1
    IN  IF sel = 0 THEN s2
        ELSE UpdateWorkspace([s2 EXCEPT !.selected_item = sel], t, size,
                             t.data[sel].type, 0)


(***************************************************************************)
(* Inputs of the model: project files on disk, pointer positions.          *)
(***************************************************************************)
\* The project files the user can open, as written by _save_tree_to_file.
ProjectFiles ==
    << \* 1: a 100 x 150 project with two regions side by side
       <<Node(ProjectData("Smith Residence", Num(100, 1), Num(150, 1)),
              <<Leaf(RegionData("Front Yard")), Leaf(RegionData("Side Yard"))>>)>>,
       \* 2: a 4 x 3 project with a region nested in a region
       <<Node(ProjectData("Courtyard", Num(4, 1), Num(3, 1)),
              <<Node(RegionData("Backyard"), <<Leaf(RegionData("Pond"))>>)>>)>>,
       \* 3: a project smaller than one unit
       <<Node(ProjectData("Planter", Num(1, 2), Num(1, 4)), <<Leaf(RegionData("Bed"))>>)>>,
       \* 4: a very large project
       <<Node(ProjectData("Estate", Num(5000, 1), Num(2000, 1)), <<>>)>>,
       \* 5: a project whose width was never filled in
       <<Node(ProjectData("Draft", EmptyStr, Num(150, 1)), <<>>)>>,
       \* 6: a project with a region of two regions and a region beside it
       <<Node(ProjectData("Garden", Num(100, 1), Num(150, 1)),
              <<Node(RegionData("Beds"),
                     <<Leaf(RegionData("Herbs")), Leaf(RegionData("Roses"))>>),
                Leaf(RegionData("Lawn"))>>)>> >>

\* the files opened in the editing runs and in the view runs
EditorFiles == {1}
TreeFiles == {1, 2}
ViewFiles == {1, 3, 4}

\* the canvas once the window is mapped
MappedCanvas == <<400, 300>>

\* Canvas pointer positions, given MappedCanvas and the default rectangle
\* (100,75) (300,75) (300,225) (100,225) it produces:
\*   <<105, 80>>   within 10 px of vertex 0
\*   <<200, 80>>   within 10 px of the top edge, of no vertex
\*   <<292, 225>>  within 10 px of vertex 2 and on the bottom edge
\*   <<200, 150>>  the canvas centre, near nothing
CanvasPoints == {<<100, 150>>, <<105, 80>>, <<200, 80>>, <<292, 225>>, <<200, 150>>}
\* where a grabbed vertex is dragged to
DragPoints == {<<292, 225>>, <<200, 150>>}

\* Tree pointer positions: the press position and positions 5 and 6 px away
PressPoint == <<20, 20>>
MotionOffsets == {0, DragThreshold, DragThreshold + 1}
MotionPoints == {<<PressPoint[1] + d[1], PressPoint[2] + d[2]>> :
                    d \in {<<0, 0>>, <<DragThreshold, DragThreshold>>,
                           <<DragThreshold + 1, 0>>, <<0, DragThreshold + 1>>}}
\* where in the row under the pointer the pointer is: relative_y < quarter,
\* relative_y > 3 * quarter, or in between
Zones == {"top", "bottom", "middle"}

(***************************************************************************)
(* Tree operations.                                                        *)
(***************************************************************************)
Idle == mouse = "up" /\ ~menu_posted /\ ~select_pending

\* _open_project() with the file `name`, holding `content`, chosen in the
\* dialog.  tree.delete on a selected item may or may not generate
\* <<TreeviewSelect>>, depending on the Tk release.
OpenFile(content, name, max_items) ==
    /\ Idle
    /\ LET r == LoadTreeFromFile(tree, content)
       IN  /\ r.tree.next - 1 <= max_items
           /\ tree' = r.tree
           /\ current_file' = IF r.raised THEN current_file ELSE name
           /\ message' = IF r.raised THEN "Error" ELSE "Project Opened"
           /\ selection' = IF selection \in Items(r.tree) THEN selection ELSE 0
    /\ \E generated \in BOOLEAN :
          select_pending' = (select_pending \/ (generated /\ selection' # selection))
    /\ UNCHANGED <<menu_posted, mouse, dragVars, guiVars, viewVars, prefVars,
                   saved_file, other_preferences, plot_file, plantVars, edits>>

\* a readable, well-formed file f of ProjectFiles
OpenProjectWithin(f, max_items) == OpenFile(TreeFile(ProjectFiles[f]), f, max_items)

OpenProject(f) == OpenProjectWithin(f, MaxItems)

\* <ButtonPress-1> on the tree at the row of item `row` (0: below the last
\* row): _on_drag_start, then the Treeview class binding selects the row.
TreePress(row) ==
    /\ Idle
    /\ mouse' = "tree"
    /\ drag_start' = PressPoint
    /\ has_moved' = FALSE
    /\ drag_item' = IF row = 0 THEN drag_item
                    ELSE IF tree.parent[row] = 0 THEN 0 ELSE row
    /\ selection' = IF row = 0 THEN selection ELSE row
    /\ select_pending' = (select_pending \/ row # 0)
    /\ UNCHANGED <<tree, menu_posted, current_file, drop_target, drop_position,
                   guiVars, viewVars, prefVars, worldVars, plantVars, edits>>

\* _on_drag_motion with the threshold test made inclusive
MovedInclusive(p, start) ==
    Abs(p[1] - start[1]) >= DragThreshold \/ Abs(p[2] - start[2]) >= DragThreshold

\* _on_drag_motion: dx > 5 or dy > 5
Moved(p, start) ==
    Abs(p[1] - start[1]) > DragThreshold \/ Abs(p[2] - start[2]) > DragThreshold

\* <B1-Motion> on the tree at position p, over the row of item `row`
\* (0: no row), in zone `zone` of that row: _on_drag_motion
TreeMotion(p, row, zone) ==
    /\ mouse = "tree"
    /\ p[2] = drag_start[2] /\ drag_item # 0 => row = drag_item
    /\ LET moved == has_moved \/ Moved(p, drag_start)
           drag_type == tree.data[drag_item].type
           target_type == tree.data[row].type
       IN  IF drag_item = 0
           THEN UNCHANGED <<has_moved, drop_target, drop_position, selection, select_pending>>
           ELSE /\ has_moved' = moved
                /\ IF ~moved
                   THEN UNCHANGED <<drop_target, drop_position, selection, select_pending>>
                   ELSE IF row = 0
                   THEN /\ drop_target' = 0
                        /\ drop_position' = "none"
                        /\ selection' = drag_item
                        /\ select_pending' = TRUE
                   ELSE IF row = drag_item \/ IsDescendant(tree, drag_item, row)
                   THEN /\ drop_target' = 0
                        /\ drop_position' = "none"
                        /\ UNCHANGED <<selection, select_pending>>
                   ELSE /\ drop_position' =
                              IF zone = "top" THEN "above"
                              ELSE IF zone = "bottom" THEN "below"
                              ELSE IF drag_type = "region"
                                      /\ target_type \in {"project", "region"}
                                   THEN "inside" ELSE "below"
                        /\ drop_target' = row
                        /\ selection' = row
                        /\ select_pending' = TRUE
    /\ UNCHANGED <<tree, menu_posted, mouse, current_file, drag_item, drag_start,
                   guiVars, viewVars, prefVars, worldVars, plantVars, edits>>

\* _on_drag_release with 'below' inserting at the index of the target
DropTreeAtIndex(t, item, target, position) ==
    LET cloned ==
            IF position \in {"above", "below"}
            THEN CloneSubtree(t, item, t.parent[target], TreeIndex(t, target))
            ELSE CloneSubtree(t, item, target, Len(t.children[target]))
    IN  TreeDelete(cloned, item)

\* the tree after the drop of _on_drag_release, and the id of the new item
DropTree(t, item, target, position) ==
    LET cloned ==
            IF position = "above"
            THEN CloneSubtree(t, item, t.parent[target], TreeIndex(t, target))
            ELSE IF position = "below"
            THEN CloneSubtree(t, item, t.parent[target], TreeIndex(t, target) + 1)
            ELSE CloneSubtree(t, item, target, Len(t.children[target]))
    IN  TreeDelete(cloned, item)

\* <ButtonRelease-1> on the tree: _on_drag_release
TreeReleaseWithin(max_items) ==
    /\ mouse = "tree"
    /\ mouse' = "up"
    /\ IF drag_item = 0
       THEN UNCHANGED <<tree, selection, select_pending, selected_item, dragVars>>
       ELSE IF ~has_moved
       THEN /\ drag_item' = 0 /\ drop_target' = 0 /\ drop_position' = "none"
            /\ has_moved' = FALSE
            /\ UNCHANGED <<tree, selection, select_pending, selected_item, drag_start>>
       ELSE /\ drag_item' = 0 /\ drop_target' = 0 /\ drop_position' = "none"
            /\ has_moved' = FALSE
            /\ UNCHANGED drag_start
            /\ IF drop_target # 0 /\ drop_position # "none"
               THEN IF tree.parent[drag_item] = 0
                    THEN UNCHANGED <<tree, selection, select_pending, selected_item>>
                    ELSE /\ tree.next + SubtreeSize(tree, drag_item) - 1 <= max_items
                         /\ tree' = DropTree(tree, drag_item, drop_target, drop_position)
                         /\ selection' = tree.next
                         /\ select_pending' = TRUE
                         /\ selected_item' = tree.next
               ELSE UNCHANGED <<tree, selection, select_pending, selected_item>>
    /\ UNCHANGED <<menu_posted, current_file, drawing_mode, polygon_vertices,
                   selected_vertex, dragging_vertex, region_polygons,
                   clear_button_visible, clear_button_enabled, canvas_zoom,
                   has_auto_zoomed, current_project_item, retries, editing, shown_polygon,
                   itemVars,
                   viewVars, prefVars, worldVars, plantVars, edits>>

TreeRelease == TreeReleaseWithin(MaxItems)

\* <Button-2> on the row of item `row`: _show_context_menu
ShowContextMenu(row) ==
    /\ Idle
    /\ row # 0
    /\ selection' = row
    /\ select_pending' = TRUE
    /\ selected_item' = row
    /\ menu_posted' = TRUE
    /\ UNCHANGED <<tree, mouse, current_file, dragVars, drawing_mode, polygon_vertices,
                   selected_vertex, dragging_vertex, region_polygons,
                   clear_button_visible, clear_button_enabled, canvas_zoom,
                   has_auto_zoomed, current_project_item, retries, editing, shown_polygon,
                   itemVars,
                   viewVars, prefVars, worldVars, plantVars, edits>>

\* the context menu is dismissed without a command
DismissMenu ==
    /\ menu_posted
    /\ menu_posted' = FALSE
    /\ UNCHANGED <<tree, selection, select_pending, mouse, current_file, dragVars,
                   guiVars, viewVars, prefVars, worldVars, plantVars, edits>>

\* context menu "Add Child Region": _add_child_region
AddChildRegion ==
    /\ menu_posted
    /\ menu_posted' = FALSE
    /\ IF selected_item = 0 \/ ~TreeExists(tree, selected_item)
       THEN UNCHANGED <<tree, selection, select_pending>>
       ELSE /\ tree.next <= MaxItems
            /\ tree' = TreeInsert(tree, selected_item,
                                  Len(tree.children[selected_item]),
                                  RegionData("New Region"))
            /\ selection' = tree.next
            /\ select_pending' = TRUE
    /\ UNCHANGED <<mouse, current_file, dragVars, guiVars, viewVars, prefVars, worldVars, plantVars, edits>>

\* _delete_item without the test for the root project
DeleteItemAny(proceed) ==
    /\ menu_posted
    /\ menu_posted' = FALSE
    /\ IF selected_item = 0 \/ ~TreeExists(tree, selected_item)
       THEN UNCHANGED <<tree, selection, select_pending, selected_item>>
       ELSE IF ~proceed
       THEN UNCHANGED <<tree, selection, select_pending, selected_item>>
       ELSE /\ tree' = TreeDelete(tree, selected_item)
            /\ selected_item' = 0
            /\ selection' = tree.parent[selected_item]
            /\ select_pending' = (tree.parent[selected_item] # 0)
    /\ UNCHANGED <<mouse, current_file, dragVars, drawing_mode, polygon_vertices,
                   selected_vertex, dragging_vertex, region_polygons,
                   clear_button_visible, clear_button_enabled, canvas_zoom,
                   has_auto_zoomed, current_project_item, retries, editing, shown_polygon,
                   itemVars,
                   viewVars, prefVars, worldVars, plantVars, edits>>

\* context menu "Delete": _delete_item, the user answering the confirmation
\* dialog with Proceed (proceed) or Cancel
DeleteItem(proceed) ==
    /\ menu_posted
    /\ menu_posted' = FALSE
    /\ IF selected_item = 0 \/ ~TreeExists(tree, selected_item)
       THEN UNCHANGED <<tree, selection, select_pending, selected_item>>
       ELSE IF tree.parent[selected_item] = 0
       THEN UNCHANGED <<tree, selection, select_pending, selected_item>>
       ELSE IF ~proceed
       THEN UNCHANGED <<tree, selection, select_pending, selected_item>>
       ELSE /\ tree' = TreeDelete(tree, selected_item)
            /\ selected_item' = 0
            /\ selection' = tree.parent[selected_item]
            /\ select_pending' = TRUE
    /\ UNCHANGED <<mouse, current_file, dragVars, drawing_mode, polygon_vertices,
                   selected_vertex, dragging_vertex, region_polygons,
                   clear_button_visible, clear_button_enabled, canvas_zoom,
                   has_auto_zoomed, current_project_item, retries, editing, shown_polygon,
                   itemVars,
                   viewVars, prefVars, worldVars, plantVars, edits>>

\* the queued <<TreeviewSelect>> event is dispatched: _on_tree_select
OnTreeSelect ==
    /\ select_pending
    /\ select_pending' = FALSE
    /\ SetGUI(TreeSelectHandler(GUI, tree, canvas_size, selection))
    /\ UNCHANGED <<tree, selection, menu_posted, mouse, current_file, dragVars,
                   viewVars, prefVars, worldVars, plantVars, edits>>

\* <Return>, <FocusOut> or a combobox choice in the Properties form, with
\* the width and length fields holding `width` and `length`:
\* _apply_property_change. A project item takes the two fields; the fields
\* of a region are not part of this model. Any exception is caught and
\* logged.
ApplyPropertyChange(width, length) ==
    /\ Idle
    /\ selected_item # 0
    /\ IF ~TreeExists(tree, selected_item)
       THEN UNCHANGED <<tree, guiVars>>   \* tree.item(...) raises TclError
       ELSE LET item_type == tree.data[selected_item].type
                t == IF item_type = "project"
                     THEN [tree EXCEPT !.data[selected_item].width = width,
                                       !.data[selected_item].length = length]
                     ELSE tree
            IN  /\ tree' = t
                /\ SetGUI(UpdateWorkspace(GUI, t, canvas_size, item_type, 0))
    /\ UNCHANGED <<selection, select_pending, menu_posted, mouse, current_file,
                   dragVars, viewVars, prefVars, worldVars, plantVars, edits>>


(***************************************************************************)
(* Polygon editing on the canvas.                                          *)
(***************************************************************************)
\* _insert_vertex_on_edge(edge_idx, x, y) without the limit of 15 vertices
InsertVertexNoLimit(s, edge_idx, p) ==
    RedrawPolygon([s EXCEPT !.polygon_vertices = ListInsert(@, edge_idx + 1, p),
                            !.selected_vertex = edge_idx + 1])

\* _insert_vertex_on_edge(edge_idx, x, y)
InsertVertexOnEdge(s, edge_idx, p) ==
    IF Len(s.polygon_vertices) >= MaxVertices THEN s
    ELSE RedrawPolygon([s EXCEPT !.polygon_vertices = ListInsert(@, edge_idx + 1, p),
                                 !.selected_vertex = edge_idx + 1])

\* _on_canvas_click(event)
CanvasClickHandler(s, p) ==
    IF ~s.drawing_mode THEN s
    ELSE LET vertex_idx == FindVertexAt(s.polygon_vertices, p)
             edge_idx == FindEdgeAt(s.polygon_vertices, p)
         IN  IF vertex_idx # NoVertex
             THEN RedrawPolygon([s EXCEPT !.selected_vertex = vertex_idx,
                                          !.dragging_vertex = TRUE])
             ELSE IF edge_idx # NoVertex THEN InsertVertexOnEdge(s, edge_idx, p)
             ELSE s

\* _on_canvas_drag(event); an index past the end raises IndexError
CanvasDragHandler(s, p) ==
    IF ~s.drawing_mode \/ ~s.dragging_vertex THEN s
    ELSE IF s.selected_vertex = NoVertex THEN s
    ELSE IF s.selected_vertex >= Len(s.polygon_vertices) THEN s
    ELSE RedrawPolygon([s EXCEPT !.polygon_vertices[s.selected_vertex + 1] = p])

\* _on_canvas_right_click(event) without the minimum of three vertices
CanvasRightClickNoMinimum(s, p) ==
    IF ~s.drawing_mode THEN s
    ELSE LET vertex_idx == FindVertexAt(s.polygon_vertices, p)
         IN  IF vertex_idx = NoVertex THEN s
             ELSE RedrawPolygon(
                      [s EXCEPT !.polygon_vertices = ListDelete(@, vertex_idx),
                                !.selected_vertex =
                                    IF @ = vertex_idx THEN NoVertex
                                    ELSE IF @ # NoVertex /\ @ > vertex_idx THEN @ - 1
                                    ELSE @])

\* _on_canvas_right_click(event) that leaves selected_vertex as it is
CanvasRightClickKeepsIndex(s, p) ==
    IF ~s.drawing_mode THEN s
    ELSE LET vertex_idx == FindVertexAt(s.polygon_vertices, p)
         IN  IF vertex_idx = NoVertex THEN s
             ELSE IF Len(s.polygon_vertices) <= MinVertices THEN s
             ELSE RedrawPolygon([s EXCEPT !.polygon_vertices = ListDelete(@, vertex_idx)])

\* _on_canvas_right_click(event)
CanvasRightClickHandler(s, p) ==
    IF ~s.drawing_mode THEN s
    ELSE LET vertex_idx == FindVertexAt(s.polygon_vertices, p)
         IN  IF vertex_idx = NoVertex THEN s
             ELSE IF Len(s.polygon_vertices) <= MinVertices THEN s
             ELSE RedrawPolygon(
                      [s EXCEPT !.polygon_vertices = ListDelete(@, vertex_idx),
                                !.selected_vertex =
                                    IF @ = vertex_idx THEN NoVertex
                                    ELSE IF @ # NoVertex /\ @ > vertex_idx THEN @ - 1
                                    ELSE @])

\* <Button-1> on the canvas at p
CanvasPress(p) ==
    /\ Idle
    /\ mouse' = "canvas"
    /\ SetGUI(CanvasClickHandler(GUI, p))
    /\ UNCHANGED <<tree, selection, select_pending, menu_posted, current_file,
                   dragVars, viewVars, prefVars, worldVars, plantVars>>

\* the same, counted as an editing gesture
CanvasClick(p) ==
    /\ edits < MaxEdits
    /\ edits' = edits + 1
    /\ CanvasPress(p)

\* <B1-Motion> on the canvas at p
CanvasDrag(p) ==
    /\ mouse = "canvas"
    /\ SetGUI(CanvasDragHandler(GUI, p))
    /\ UNCHANGED <<treeVars, dragVars, viewVars, prefVars, worldVars, plantVars, edits>>

\* <ButtonRelease-1> on the canvas: _on_canvas_release
CanvasRelease ==
    /\ mouse = "canvas"
    /\ mouse' = "up"
    /\ dragging_vertex' = FALSE
    /\ UNCHANGED <<tree, selection, select_pending, menu_posted, current_file,
                   dragVars, selected_item, drawing_mode, polygon_vertices,
                   selected_vertex, region_polygons, clear_button_visible,
                   clear_button_enabled, canvas_zoom, has_auto_zoomed,
                   current_project_item, retries, editing, shown_polygon, itemVars,
                   viewVars, prefVars, worldVars, plantVars, edits>>

\* <Control-Button-1> on the canvas at p (press and release)
CanvasRightClick(p) ==
    /\ Idle
    /\ edits < MaxEdits
    /\ edits' = edits + 1
    /\ SetGUI(CanvasRightClickHandler(GUI, p))
    /\ UNCHANGED <<treeVars, dragVars, viewVars, prefVars, worldVars, plantVars>>

\* the Clear Shape button, when it is shown and enabled: _clear_polygon
ClearShape ==
    /\ Idle
    /\ clear_button_visible /\ clear_button_enabled
    /\ edits < MaxEdits
    /\ edits' = edits + 1
    /\ SetGUI(ClearPolygon(GUI))
    /\ UNCHANGED <<treeVars, dragVars, viewVars, prefVars, worldVars, plantVars>>

(***************************************************************************)
(* PreferencesManager.                                                     *)
(***************************************************************************)
\* Python values: None, bool, str, float and dict, the scalars by their repr
NoItems == [k \in {} |-> 0]
PyNone == [kind |-> "none", s |-> "None", items |-> NoItems]
PyBool(s) == [kind |-> "bool", s |-> s, items |-> NoItems]
PyStr(s) == [kind |-> "str", s |-> s, items |-> NoItems]
PyNum(s) == [kind |-> "num", s |-> s, items |-> NoItems]
PyDict(items) == [kind |-> "dict", s |-> "", items |-> items]

\* self.preferences of a window that has not been started
NotStarted == PyNone

\* JSON documents: null, true/false, strings, numbers and objects; a missing
\* file and a file that is not JSON
JsonNull == [kind |-> "null", s |-> "null", items |-> NoItems]
JsonBool(s) == [kind |-> "boolean", s |-> s, items |-> NoItems]
JsonStr(s) == [kind |-> "string", s |-> s, items |-> NoItems]
JsonNum(s) == [kind |-> "number", s |-> s, items |-> NoItems]
JsonObject(items) == [kind |-> "object", s |-> "", items |-> items]
NoFile == [kind |-> "absent", s |-> "", items |-> NoItems]
NotJson == [kind |-> "invalid", s |-> "{", items |-> NoItems]

\* json.dump(prefs, f)
RECURSIVE JsonDump(_)
JsonDump(v) ==
    CASE v.kind = "none" -> JsonNull
      [] v.kind = "bool" -> JsonBool(IF v.s = "True" THEN "true" ELSE "false")
      [] v.kind = "str" -> JsonStr(v.s)
      [] v.kind = "num" -> JsonNum(v.s)
      [] v.kind = "dict" -> JsonObject([k \in DOMAIN v.items |-> JsonDump(v.items[k])])

\* json.load(f)
RECURSIVE JsonLoad(_)
JsonLoad(j) ==
    CASE j.kind = "null" -> PyNone
      [] j.kind = "boolean" -> PyBool(IF j.s = "true" THEN "True" ELSE "False")
      [] j.kind = "string" -> PyStr(j.s)
      [] j.kind = "number" -> PyNum(j.s)
      [] j.kind = "object" -> PyDict([k \in DOMAIN j.items |-> JsonLoad(j.items[k])])

\* _get_default_preferences()
DefaultPreferences ==
    PyDict([k \in {"location", "theme", "development_mode"} |->
               CASE k = "location" ->
                        PyDict([c \in {"latitude", "longitude"} |-> PyNone])
                 [] k = "theme" -> PyStr("flatly")
                 [] k = "development_mode" -> PyBool("False")])

\* _merge_preferences(defaults, loaded)
MergePreferences(defaults, loaded) ==
    PyDict([key \in DOMAIN defaults.items |->
               IF key \notin DOMAIN loaded.items THEN defaults.items[key]
               ELSE LET value == loaded.items[key]
                        result == defaults.items[key]
                    IN  IF value.kind = "dict" /\ result.kind = "dict"
                        THEN PyDict([c \in DOMAIN result.items \cup DOMAIN value.items |->
                                        IF c \in DOMAIN value.items THEN value.items[c]
                                        ELSE result.items[c]])
                        ELSE value])

\* _load_preferences(), the preferences it returns
LoadPreferences(file) ==
    IF file.kind \in {"absent", "invalid"} THEN DefaultPreferences
    ELSE MergePreferences(DefaultPreferences, JsonLoad(file))

\* _load_preferences(), the file it leaves
LoadedFile(file) ==
    IF file.kind = "absent" THEN JsonDump(DefaultPreferences) ELSE file

\* key.split('.')
Split(key) ==
    CASE key = "location.latitude" -> <<"location", "latitude">>
      [] key = "location.longitude" -> <<"location", "longitude">>
      [] OTHER -> <<key>>

\* the loop of get(): the value at the path, None for a missing key
RECURSIVE Descend(_, _)
Descend(value, keys) ==
    IF keys = <<>> THEN [found |-> TRUE, value |-> value]
    ELSE IF value.kind = "dict"
    THEN Descend(IF Head(keys) \in DOMAIN value.items THEN value.items[Head(keys)]
                 ELSE PyNone,
                 Tail(keys))
    ELSE [found |-> FALSE, value |-> PyNone]

\* get(key, default)
PrefGet(prefs, key, default) ==
    LET r == Descend(prefs, Split(key))
    IN  IF ~r.found THEN default
        ELSE IF r.value.kind # "none" THEN r.value ELSE default

\* the body of set(): missing dicts on the path are created, the value is
\* stored; an item assignment on a value that is no dict raises TypeError
RECURSIVE SetIn(_, _, _)
SetIn(prefs, keys, value) ==
    IF prefs.kind # "dict" THEN [raised |-> "TypeError", prefs |-> prefs]
    ELSE IF Len(keys) = 1
    THEN [raised |-> "",
          prefs |-> PyDict(DictSet(prefs.items, keys[1], value))]
    ELSE LET k == Head(keys)
             child == IF k \in DOMAIN prefs.items THEN prefs.items[k] ELSE PyDict(NoItems)
             r == SetIn(child, Tail(keys), value)
         IN  [raised |-> r.raised,
              prefs |-> PyDict(DictSet(prefs.items, k, r.prefs))]

\* get_location(): the pair, or None
GetLocation(prefs) ==
    LET lat == PrefGet(prefs, "location.latitude", PyNone)
        lon == PrefGet(prefs, "location.longitude", PyNone)
    IN  IF lat.kind # "none" /\ lon.kind # "none" THEN <<lat, lon>> ELSE <<>>

\* The preference files found at start-up
PrefFiles ==
    {NoFile,
     NotJson,
     JsonObject(NoItems),
     JsonObject([k \in {"theme"} |-> JsonStr("darkly")]),
     JsonDump(DefaultPreferences),
     JsonObject([k \in {"location", "development_mode"} |->
                    IF k = "location"
                    THEN JsonObject([c \in {"latitude"} |-> JsonNum("42.3601")])
                    ELSE JsonBool("true")]),
     JsonObject([k \in {"location", "window"} |->
                    IF k = "location"
                    THEN JsonObject([c \in {"latitude", "longitude"} |->
                                        IF c = "latitude" THEN JsonNum("42.3601")
                                        ELSE JsonNum("-71.0589")])
                    ELSE JsonStr("800x600")]),
     JsonObject([k \in {"location", "theme"} |->
                    IF k = "location" THEN JsonNull ELSE JsonStr("darkly")])}

\* The keys of the preference structure and the values set for them
PrefKeys == {"theme", "development_mode", "location.latitude", "location.longitude"}
PrefValues(key) ==
    CASE key = "theme" -> {PyStr("darkly"), PyStr("flatly")}
      [] key = "development_mode" -> {PyBool("True"), PyBool("False")}
      [] key = "location.latitude" -> {PyNum("42.3601"), PyNum("0.0")}
      [] key = "location.longitude" -> {PyNum("-71.0589"), PyNum("0.0")}

\* set(key, value)
PrefSet(key, value) ==
    /\ pref_calls < MaxPrefCalls
    /\ pref_calls' = pref_calls + 1
    /\ LET r == SetIn(preferences, Split(key), value)
       IN  /\ raised' = r.raised
           /\ preferences' = r.prefs
           /\ prefs_file' = IF r.raised = "" THEN JsonDump(r.prefs) ELSE prefs_file
    /\ UNCHANGED <<treeVars, dragVars, guiVars, viewVars, worldVars, plantVars, edits>>

\* set_location(latitude, longitude): two set calls, the second only when the
\* first did not raise
SetLocation(latitude, longitude) ==
    /\ pref_calls < MaxPrefCalls
    /\ pref_calls' = pref_calls + 1
    /\ LET r1 == SetIn(preferences, Split("location.latitude"), latitude)
           r2 == SetIn(r1.prefs, Split("location.longitude"), longitude)
           r == IF r1.raised # "" THEN r1 ELSE r2
       IN  /\ raised' = r.raised
           /\ preferences' = r.prefs
           /\ prefs_file' = IF r1.raised # "" THEN prefs_file
                            ELSE IF r2.raised # "" THEN JsonDump(r1.prefs)
                            ELSE JsonDump(r2.prefs)
    /\ UNCHANGED <<treeVars, dragVars, guiVars, viewVars, worldVars, plantVars, edits>>

(***************************************************************************)
(* Regenesis (src/regenesis.py): the plant database and the selection.     *)
(* An optional number is <<>> (None) or <<n>>.                              *)
(***************************************************************************)
None == <<>>
Some(n) == <<n>>
\* bool(v) of an optional number: None and 0 are falsy
Truthy(v) == v # None /\ v[1] # 0

\* _initialize_plant_database: plant_names, heights, colors
PlantNames ==
    <<"Purple Coneflower", "Black-Eyed Susan", "Wild Bergamot", "Butterfly Weed",
      "New England Aster", "Joe Pye Weed", "Wild Columbine", "Goldenrod",
      "Blazing Star">>
Heights == {1, 2, 3, 4}
Colors == {"white", "yellow", "purple", "pink"}

\* Plant(name, height, color)
Plant(name, height, color) == [name |-> name, height |-> height, color |-> color]

\* the databases _initialize_plant_database can build: random.choice of a
\* height and of a colour for each name
PlantDatabases ==
    { [i \in 1..NumPlants |-> Plant(PlantNames[i], a[i].height, a[i].color)] :
        a \in [1..NumPlants -> [height : Heights, color : Colors]] }

\* one of them, for the runs that never read the database
SampleDatabase ==
    [i \in 1..NumPlants |->
        Plant(PlantNames[i], IF i % 2 = 1 THEN 2 ELSE 3,
              IF i % 2 = 1 THEN "purple" ELSE "yellow")]

\* Regenesis.__init__
NewRegenesis(db) ==
    /\ plants = db
    /\ selected_plants = <<>>
    /\ plot_width = None
    /\ plot_height = None
    /\ returned = [call |-> "__init__", value |-> None]

\* the loop of filter_plants_by_height over get_all_plants()
FilterByHeight(all, min_height, max_height) ==
    LET Kept(plant) ==
            /\ ~(Truthy(min_height) /\ plant.height < min_height[1])
            /\ ~(Truthy(max_height) /\ plant.height > max_height[1])
    IN  SelectSeq(all, Kept)

\* the loop of get_color_distribution: one more than the colour's count so far
ColorCountsFlat(counts, color) == DictSet(counts, color, 1)
ColorCounts(counts, color) ==
    DictSet(counts, color, (IF color \in DOMAIN counts THEN counts[color] ELSE 0) + 1)

RECURSIVE ColorDistribution(_)
ColorDistribution(selected) ==
    IF selected = <<>>
    THEN [c \in {} |-> 0]
    ELSE ColorCounts(ColorDistribution(SubSeq(selected, 1, Len(selected) - 1)),
                     selected[Len(selected)].color)

PlantFrame == UNCHANGED <<treeVars, dragVars, guiVars, viewVars, prefVars, worldVars, edits>>

\* the arguments of the calls
HeightBounds == {None, Some(0), Some(2), Some(3)}
PlotSizes == {<<10, 15>>}

\* set_plot_dimensions(width, height)
SetPlotDimensions(width, height) ==
    /\ plot_width' = Some(width)
    /\ plot_height' = Some(height)
    /\ returned' = [call |-> "set_plot_dimensions", value |-> None]
    /\ UNCHANGED <<plants, selected_plants>>
    /\ PlantFrame

\* filter_plants_by_height(min_height, max_height)
FilterPlantsByHeight(min_height, max_height) ==
    /\ returned' = [call |-> "filter_plants_by_height",
                    value |-> FilterByHeight(plants, min_height, max_height)]
    /\ UNCHANGED <<plants, selected_plants, plot_width, plot_height>>
    /\ PlantFrame

\* add_plant_to_selection(plant), with a plant of the database
AddPlantToSelection(plant) ==
    /\ Len(selected_plants) < MaxSelected
    /\ selected_plants' = Append(selected_plants, plant)
    /\ returned' = [call |-> "add_plant_to_selection", value |-> None]
    /\ UNCHANGED <<plants, plot_width, plot_height>>
    /\ PlantFrame

\* clear_selection()
ClearSelection ==
    /\ selected_plants' = <<>>
    /\ returned' = [call |-> "clear_selection", value |-> None]
    /\ UNCHANGED <<plants, plot_width, plot_height>>
    /\ PlantFrame

\* new_project()
NewProject ==
    /\ plot_width' = None
    /\ plot_height' = None
    /\ selected_plants' = <<>>
    /\ returned' = [call |-> "new_project", value |-> None]
    /\ UNCHANGED plants
    /\ PlantFrame

\* json.dump / json.load of plot_width and plot_height: None is written as
\* null, a number as a number
JsonOfOptional(v) ==
    IF v = None THEN [kind |-> "null", n |-> 0] ELSE [kind |-> "number", n |-> v[1]]
OptionalOfJson(j) == IF j.kind = "null" THEN None ELSE Some(j.n)

\* project_data of save_to_file(filepath)
PlotData(selected, width, height) ==
    [kind |-> "project",
     plot_dimensions |-> [width |-> JsonOfOptional(width),
                          height |-> JsonOfOptional(height)],
     selected_plants |-> [k \in DOMAIN selected |->
                             [name |-> selected[k].name,
                              height |-> selected[k].height,
                              color |-> selected[k].color]]]

\* the loops of load_from_file with the match made on the name alone
RECURSIVE RestoreByName(_, _)
RestoreByName(all, entries) ==
    IF entries = <<>> THEN <<>>
    ELSE LET plant_data == Head(entries)
             hits == {i \in DOMAIN all : all[i].name = plant_data.name}
             rest == RestoreByName(all, Tail(entries))
         IN  IF hits = {} THEN rest
             ELSE <<all[CHOOSE i \in hits : \A j \in hits : i <= j]>> \o rest

\* the loops of load_from_file: for each saved entry the first plant of the
\* database with that name, height and colour is appended
RECURSIVE RestoreSelection(_, _)
RestoreSelection(all, entries) ==
    IF entries = <<>> THEN <<>>
    ELSE LET plant_data == Head(entries)
             hits == {i \in DOMAIN all : /\ all[i].name = plant_data.name
                                         /\ all[i].height = plant_data.height
                                         /\ all[i].color = plant_data.color}
             rest == RestoreSelection(all, Tail(entries))
         IN  IF hits = {} THEN rest
             ELSE <<all[CHOOSE i \in hits : \A j \in hits : i <= j]>> \o rest

\* save_to_file(filepath)
SaveToFile ==
    /\ plot_file' = PlotData(selected_plants, plot_width, plot_height)
    /\ returned' = [call |-> "save_to_file", value |-> None]
    /\ UNCHANGED <<plants, selected_plants, plot_width, plot_height>>
    /\ UNCHANGED <<treeVars, dragVars, guiVars, viewVars, prefVars, saved_file,
                   message, other_preferences, edits>>

\* load_from_file(filepath) of the file written by save_to_file
LoadFromFile ==
    /\ plot_file.kind = "project"
    /\ plot_width' = OptionalOfJson(plot_file.plot_dimensions.width)
    /\ plot_height' = OptionalOfJson(plot_file.plot_dimensions.height)
    /\ selected_plants' = RestoreSelection(plants, plot_file.selected_plants)
    /\ returned' = [call |-> "load_from_file", value |-> None]
    /\ UNCHANGED plants
    /\ PlantFrame

\* get_color_distribution()
GetColorDistribution ==
    /\ returned' = [call |-> "get_color_distribution",
                    value |-> ColorDistribution(selected_plants)]
    /\ UNCHANGED <<plants, selected_plants, plot_width, plot_height>>
    /\ PlantFrame

(***************************************************************************)
(* The state after RegenesisGUI.__init__ with the default preferences      *)
(* (development_mode off: the tree starts empty) and the window mapped.    *)
(***************************************************************************)
WindowInitSized(size) ==
    /\ tree = EmptyTree
    /\ selection = 0
    /\ select_pending = FALSE
    /\ menu_posted = FALSE
    /\ mouse = "up"
    /\ current_file = 0
    /\ selected_item = 0
    /\ drag_item = 0
    /\ drop_target = 0
    /\ drop_position = "none"
    /\ has_moved = FALSE
    /\ drag_start = <<0, 0>>
    /\ drawing_mode = FALSE
    /\ polygon_vertices = <<>>
    /\ selected_vertex = NoVertex
    /\ dragging_vertex = FALSE
    /\ region_polygons = [i \in {} |-> <<>>]
    /\ clear_button_visible = TRUE
    /\ clear_button_enabled = FALSE
    /\ canvas_size = size
    /\ canvas_zoom = <<1, 1>>
    /\ canvas_pan_x = <<0, 1>>
    /\ canvas_pan_y = <<0, 1>>
    /\ has_auto_zoomed = FALSE
    /\ current_project_item = 0
    /\ is_panning = FALSE
    /\ pan_start = <<0, 0>>
    /\ retries = {}
    /\ preferences = DefaultPreferences
    /\ prefs_file = JsonDump(DefaultPreferences)
    /\ raised = ""
    /\ editing = 0
    /\ shown_polygon = [i \in {} |-> <<>>]
    /\ handles_origin = <<>>
    /\ handles_moved = NotMoved
    /\ handles_home = FALSE
    /\ project_boundary = FALSE
    /\ drawn_projects = {}
    /\ workspace_drawn = FALSE
    /\ sizing_failed = FALSE
    /\ saved_file = NotSaved
    /\ message = ""
    /\ other_preferences = NotStarted
    /\ plot_file = NoFile
    /\ edits = 0
    /\ zoom_steps = 0
    /\ pref_calls = 0

\* the window once it is mapped
WindowInit == WindowInitSized(MappedCanvas)

\* self.app = Regenesis(): the window never reads the plant database
Init == WindowInit /\ NewRegenesis(SampleDatabase)

\* Selecting, opening and deleting: the steps every run has.
SelectStep ==
    \/ \E row \in Items(tree) \cup {0} : TreePress(row)
    \/ TreeRelease
    \/ \E row \in Items(tree) : ShowContextMenu(row)
    \/ DismissMenu
    \/ OnTreeSelect

\* The editor: regions are selected and their polygons edited on the canvas.
EditorStep ==
    \/ \E f \in EditorFiles : OpenProject(f)
    \/ SelectStep
    \/ \E p \in CanvasPoints : CanvasClick(p)
    \/ \E p \in DragPoints : CanvasDrag(p)
    \/ CanvasRelease
    \/ \E p \in CanvasPoints : CanvasRightClick(p)
    \/ ClearShape

Next == EditorStep

Spec == Init /\ [][Next]_vars

\* Inserting vertices up to the limit: a project with one region, and clicks
\* at points that lie within 10 px of an edge of the polygon.  The first
\* twelve points form a chain above the top edge of the default rectangle:
\* each is within reach only of the edge that the insertion of the one
\* before it creates.  The last point lies on the closing edge.
InsertFiles == {3}
InsertPoints ==
    {<<113, 65>>, <<126, 56>>, <<139, 48>>, <<152, 41>>, <<165, 34>>, <<178, 28>>,
     <<191, 23>>, <<204, 19>>, <<217, 16>>, <<230, 13>>, <<243, 12>>, <<256, 12>>,
     <<100, 150>>}

\* (the project is opened once: a second open would give the same tree under
\* new item ids)
NextInsert ==
    \/ \E f \in InsertFiles : current_file = 0 /\ OpenProject(f)
    \/ \E row \in Items(tree) : TreePress(row)
    \/ TreeRelease
    \/ OnTreeSelect
    \/ \E p \in InsertPoints : CanvasPress(p) /\ UNCHANGED edits
    \/ CanvasRelease

SpecInsert == Init /\ [][NextInsert]_vars

\* The tree: items are added, deleted and dragged to a new place.
TreeStep ==
    \/ \E f \in TreeFiles : OpenProject(f)
    \/ SelectStep
    \/ \E p \in MotionPoints, row \in Items(tree) \cup {0}, zone \in Zones :
          TreeMotion(p, row, zone)
    \/ AddChildRegion
    \/ \E proceed \in BOOLEAN : DeleteItem(proceed)

NextTree == TreeStep

SpecTree == Init /\ [][NextTree]_vars

(***************************************************************************)
(* Drops in the tree.                                                      *)
(***************************************************************************)
\* Largest item id in the runs with drops of whole subtrees.
MaxDropItems == 8
DropFiles == {6}
\* a pointer position more than 5 px below the press position
DropPoints == {<<PressPoint[1], PressPoint[2] + DragThreshold + 1>>}

NextDrop ==
    \/ \E f \in DropFiles : current_file = 0 /\ OpenProjectWithin(f, MaxDropItems)
    \* a press while the ids for a drop of the largest subtree remain
    \/ \E row \in Items(tree) : tree.next + 2 <= MaxDropItems /\ TreePress(row)
    \/ \E p \in DropPoints, row \in Items(tree) \cup {0}, zone \in Zones :
          TreeMotion(p, row, zone)
    \/ TreeReleaseWithin(MaxDropItems)
    \/ OnTreeSelect

SpecDrop == Init /\ [][NextDrop]_vars

(***************************************************************************)
(* Project files: Save As, opening the saved file, opening broken files.   *)
(***************************************************************************)
\* Largest item id in the runs with saved and broken files.
MaxFileItems == 8
\* the name of the file chosen in File > Save As
SavedName == Len(ProjectFiles) + 1
\* the name of a file that cannot be opened
BrokenName == Len(ProjectFiles) + 2

\* _save_as_project() with a path chosen in the dialog and a writable file
SaveAsProject ==
    /\ Idle
    /\ saved_file' = TreeFile(SerializeTree(tree))
    /\ current_file' = SavedName
    /\ message' = "Project Saved"
    /\ UNCHANGED <<tree, selection, select_pending, menu_posted, mouse, dragVars,
                   guiVars, viewVars, prefVars, other_preferences, plot_file,
                   plantVars, edits>>

\* _open_project() with the file written by File > Save As
OpenSaved ==
    /\ saved_file.kind = "tree"
    /\ OpenFile(saved_file, SavedName, MaxFileItems)

\* Files that fail to load: unreadable, not JSON, a JSON list, and trees
\* with an item_data that lacks a key at the top, after a first child, and
\* below a second top-level item.
BrokenFiles ==
    {Unreadable, InvalidJson, JsonList,
     TreeFile(<<Keyless(<<>>)>>),
     TreeFile(<<Node(ProjectData("Orchard", Num(100, 1), Num(150, 1)),
                     <<Leaf(RegionData("Rows")), Keyless(<<>>),
                       Leaf(RegionData("Hedge"))>>)>>)}

\* _open_project() with a file that fails to load
OpenBroken(content) == OpenFile(content, BrokenName, MaxFileItems)

SavedFiles == {1, 2}

NextFiles ==
    \/ \E f \in SavedFiles : OpenProjectWithin(f, MaxFileItems)
    \/ \E row \in Items(tree) : TreePress(row)
    \/ TreeReleaseWithin(MaxFileItems)
    \/ OnTreeSelect
    \/ SaveAsProject
    \/ OpenSaved
    \/ \E content \in BrokenFiles : OpenBroken(content)

SpecFiles == Init /\ [][NextFiles]_vars

\* PreferencesManager on its own: constructed over one of the preference
\* files, then used through set and set_location.
InitPrefs ==
    \E file \in PrefFiles :
        /\ preferences = LoadPreferences(file)
        /\ prefs_file = LoadedFile(file)
        /\ raised = ""
        /\ pref_calls = 0
        /\ tree = EmptyTree /\ selection = 0 /\ select_pending = FALSE
        /\ menu_posted = FALSE /\ mouse = "up" /\ current_file = 0
        /\ selected_item = 0 /\ drag_item = 0 /\ drop_target = 0
        /\ drop_position = "none" /\ has_moved = FALSE /\ drag_start = <<0, 0>>
        /\ drawing_mode = FALSE /\ polygon_vertices = <<>>
        /\ selected_vertex = NoVertex /\ dragging_vertex = FALSE
        /\ region_polygons = [i \in {} |-> <<>>]
        /\ clear_button_visible = TRUE /\ clear_button_enabled = FALSE
        /\ canvas_size = MappedCanvas /\ canvas_zoom = <<1, 1>>
        /\ canvas_pan_x = <<0, 1>> /\ canvas_pan_y = <<0, 1>>
        /\ has_auto_zoomed = FALSE /\ current_project_item = 0
        /\ is_panning = FALSE /\ pan_start = <<0, 0>> /\ retries = {}
        /\ editing = 0 /\ shown_polygon = [i \in {} |-> <<>>]
        /\ handles_origin = <<>> /\ handles_moved = NotMoved /\ handles_home = FALSE
        /\ project_boundary = FALSE /\ drawn_projects = {}
        /\ workspace_drawn = FALSE /\ sizing_failed = FALSE
        /\ saved_file = NotSaved /\ message = ""
        /\ other_preferences = NotStarted /\ plot_file = NoFile
        /\ edits = 0 /\ zoom_steps = 0
        /\ NewRegenesis(SampleDatabase)

NextPrefs ==
    \/ \E key \in PrefKeys : \E value \in PrefValues(key) \cup {PyNone} : PrefSet(key, value)
    \/ \E latitude \in PrefValues("location.latitude") \cup {PyNone},
          longitude \in PrefValues("location.longitude") \cup {PyNone} :
          SetLocation(latitude, longitude)

SpecPrefs == InitPrefs /\ [][NextPrefs]_vars

(***************************************************************************)
(* Two windows: File > New Window starts a second process, whose           *)
(* PreferencesManager shares ~/.regenesis/preferences.json with the first. *)
(***************************************************************************)
\* _new_window(): the new process constructs its PreferencesManager, which
\* loads the file as it is now
NewWindow ==
    /\ other_preferences.kind = "none"
    /\ other_preferences' = LoadPreferences(prefs_file)
    /\ prefs_file' = LoadedFile(prefs_file)
    /\ UNCHANGED <<treeVars, dragVars, guiVars, viewVars, preferences, raised,
                   pref_calls, saved_file, message, plot_file, plantVars, edits>>

\* set(key, value) in the second window
OtherPrefSet(key, value) ==
    /\ other_preferences.kind = "dict"
    /\ pref_calls < MaxPrefCalls
    /\ pref_calls' = pref_calls + 1
    /\ LET r == SetIn(other_preferences, Split(key), value)
       IN  /\ other_preferences' = r.prefs
           /\ prefs_file' = IF r.raised = "" THEN JsonDump(r.prefs) ELSE prefs_file
    /\ UNCHANGED <<treeVars, dragVars, guiVars, viewVars, preferences, raised,
                   saved_file, message, plot_file, plantVars, edits>>

NextWindows ==
    \/ NewWindow
    \/ \E key \in PrefKeys : \E value \in PrefValues(key) : PrefSet(key, value)
    \/ \E key \in PrefKeys : \E value \in PrefValues(key) : OtherPrefSet(key, value)

SpecWindows == Init /\ [][NextWindows]_vars

\* Regenesis on its own: constructed with a random database, then used
\* through its methods.
InitPlants == WindowInit /\ \E db \in PlantDatabases : NewRegenesis(db)

NextPlants ==
    \/ \E size \in PlotSizes : SetPlotDimensions(size[1], size[2])
    \/ \E min_height \in HeightBounds, max_height \in HeightBounds :
          FilterPlantsByHeight(min_height, max_height)
    \/ \E i \in 1..NumPlants : AddPlantToSelection(plants[i])
    \/ ClearSelection
    \/ NewProject
    \/ GetColorDistribution

SpecPlants == InitPlants /\ [][NextPlants]_vars

\* Saving and loading: plants of the database and plants made by the caller
\* are selected, the dimensions set, the project saved and loaded.
OwnPlants ==
    {Plant("Purple Coneflower", 4, "purple"), Plant("Black-Eyed Susan", 3, "white"),
     Plant("White Oak", 4, "white")}
Selectable == Range(SampleDatabase) \cup OwnPlants
\* the selections of at most MaxSelected plants
Selections == UNION {[1..n -> Selectable] : n \in 0..MaxSelected}

NextProject ==
    \/ \E size \in PlotSizes : SetPlotDimensions(size[1], size[2])
    \/ \E plant \in Selectable : AddPlantToSelection(plant)
    \/ ClearSelection
    \/ NewProject
    \/ SaveToFile
    \/ LoadFromFile

SpecProject == Init /\ [][NextProject]_vars

(***************************************************************************)
(* The view: wheel and menu zoom, pan, reset and fit.                      *)
(***************************************************************************)
\* canvas.winfo_width() / 2, canvas.winfo_height() / 2
CanvasCenter(size) == <<Rat(size[1], 2), Rat(size[2], 2)>>

\* _zoom_canvas with only the upper zoom limit tested
ZoomAcceptedBelowMax(new_zoom) == ~RLt(ZoomMax, new_zoom)

\* _zoom_canvas: not (new_zoom < 0.01 or new_zoom > 10.0)
ZoomAccepted(new_zoom) == ~(RLt(new_zoom, ZoomMin) \/ RLt(ZoomMax, new_zoom))

\* _zoom_canvas: world = (mouse - center - pan) / (50 * zoom), one axis
ToWorld(screen, center, pan, zoom) ==
    RDiv(RSub(RSub(RInt(screen), center), pan), RMul(RInt(PixelsPerUnit), zoom))

\* screen = world * (50 * zoom) + center + pan, one axis
ToScreen(world, center, pan, zoom) ==
    RAdd(RAdd(RMul(world, RMul(RInt(PixelsPerUnit), zoom)), center), pan)

\* _zoom_canvas with the canvas centre left out of the new pan
NewPanWithoutCenter(mouse_c, center, world, new_zoom) ==
    RSub(RInt(mouse_c), RMul(world, RMul(RInt(PixelsPerUnit), new_zoom)))

\* _zoom_canvas: new_pan = mouse - center - world * (50 * new_zoom), one axis
NewPan(mouse_c, center, world, new_zoom) ==
    RSub(RSub(RInt(mouse_c), center), RMul(world, RMul(RInt(PixelsPerUnit), new_zoom)))

\* canvas.move('all', dx, dy), on the handles if there are any
MoveItems(moved, dx, dy) ==
    IF handles_origin = <<>> THEN moved
    ELSE <<moved[1], RAdd(moved[2], dx), RAdd(moved[3], dy)>>

\* canvas.scale('all', x, y, factor, factor), on the handles if there are
\* any: a coordinate c becomes x + (c - x) * factor
ScaleItems(moved, x, y, factor) ==
    IF handles_origin = <<>> THEN moved
    ELSE <<RMul(moved[1], factor),
           RAdd(x, RMul(RSub(moved[2], x), factor)),
           RAdd(y, RMul(RSub(moved[3], y), factor))>>

\* where the handle of each vertex is displayed
VertexHandles ==
    [i \in DOMAIN handles_origin |->
        <<RAdd(RMul(RInt(handles_origin[i][1]), handles_moved[1]), handles_moved[2]),
          RAdd(RMul(RInt(handles_origin[i][2]), handles_moved[1]), handles_moved[3])>>]

\* _update_rulers() at the end of a view handler
UpdateRulers ==
    project_boundary' =
        (project_boundary \/ RulersRedraw(tree, selected_item, drawing_mode))

\* _zoom_canvas(event) with the wheel factor and the pointer position
ZoomCanvasHandler(factor, p) ==
    LET new_zoom == RMul(canvas_zoom, factor)
        center == CanvasCenter(canvas_size)
        world_x == ToWorld(p[1], center[1], canvas_pan_x, canvas_zoom)
        world_y == ToWorld(p[2], center[2], canvas_pan_y, canvas_zoom)
    IN  IF ~ZoomAccepted(new_zoom)
        THEN UNCHANGED <<canvas_zoom, canvas_pan_x, canvas_pan_y, handles_moved,
                         project_boundary>>
        ELSE /\ handles_moved' = ScaleItems(handles_moved, RInt(p[1]), RInt(p[2]), factor)
             /\ UpdateRulers
             /\ canvas_zoom' = new_zoom
             /\ canvas_pan_x' = NewPan(p[1], center[1], world_x, new_zoom)
             /\ canvas_pan_y' = NewPan(p[2], center[2], world_y, new_zoom)

\* what a view step leaves alone
ViewFrame ==
    UNCHANGED <<treeVars, dragVars, selected_item, drawing_mode, polygon_vertices,
                selected_vertex, dragging_vertex, region_polygons,
                clear_button_visible, clear_button_enabled, has_auto_zoomed,
                current_project_item, retries, editing, shown_polygon,
                handles_origin, handles_home, drawn_projects,
                workspace_drawn, sizing_failed,
                canvas_size, is_panning, pan_start, prefVars, worldVars, plantVars, edits>>

\* <MouseWheel>, <Button-4>, <Button-5> on the canvas at p: _zoom_canvas
ZoomCanvas(factor, p) ==
    /\ Idle
    /\ zoom_steps < MaxZoomSteps
    /\ zoom_steps' = zoom_steps + 1
    /\ ZoomCanvasHandler(factor, p)
    /\ ViewFrame

\* View > Zoom In: _zoom_in
ZoomIn ==
    /\ Idle
    /\ zoom_steps < MaxZoomSteps
    /\ zoom_steps' = zoom_steps + 1
    /\ ZoomCanvasHandler(ZoomInFactor, <<canvas_size[1] \div 2, canvas_size[2] \div 2>>)
    /\ ViewFrame

\* View > Zoom Out: _zoom_out
ZoomOut ==
    /\ Idle
    /\ zoom_steps < MaxZoomSteps
    /\ zoom_steps' = zoom_steps + 1
    /\ ZoomCanvasHandler(ZoomOutFactor, <<canvas_size[1] \div 2, canvas_size[2] \div 2>>)
    /\ ViewFrame

\* _reset_view(), on the handles: moved back by the pan, then scaled back
\* about the canvas centre unless the zoom is 1.0
ResetItems(moved) ==
    LET center == CanvasCenter(canvas_size)
        back == MoveItems(moved, RNeg(canvas_pan_x), RNeg(canvas_pan_y))
    IN  IF canvas_zoom # <<1, 1>>
        THEN ScaleItems(back, center[1], center[2], RDiv(<<1, 1>>, canvas_zoom))
        ELSE back

\* _reset_view()
ResetViewHandler ==
    /\ handles_moved' = ResetItems(handles_moved)
    /\ UNCHANGED project_boundary
    /\ canvas_pan_x' = <<0, 1>>
    /\ canvas_pan_y' = <<0, 1>>
    /\ canvas_zoom' = <<1, 1>>

\* View > Reset Zoom: _reset_view
ResetView ==
    /\ Idle
    /\ zoom_steps' = zoom_steps
    /\ ResetViewHandler
    /\ ViewFrame

\* _fit_to_project_rectangle(project_width, project_length), the zoom it sets
FitZoom(project_width, project_length, size) ==
    LET zoom_for_width ==
            RDiv(RInt(size[1]),
                 RMul(RMul(project_width, MarginFactor), RInt(PixelsPerUnit)))
        zoom_for_height ==
            RDiv(RInt(size[2]),
                 RMul(RMul(project_length, MarginFactor), RInt(PixelsPerUnit)))
    IN  RMax(ZoomMin, RMin(ZoomMax, RMin(zoom_for_width, zoom_for_height)))

\* _fit_to_design_extents, the zoom it computes for the polygon's bounding box
ExtentsZoom(vertices, size) ==
    LET xs == {vertices[i][1] : i \in DOMAIN vertices}
        ys == {vertices[i][2] : i \in DOMAIN vertices}
        min_x == CHOOSE x \in xs : \A o \in xs : x <= o
        max_x == CHOOSE x \in xs : \A o \in xs : x >= o
        min_y == CHOOSE y \in ys : \A o \in ys : y <= o
        max_y == CHOOSE y \in ys : \A o \in ys : y >= o
        \* 1 + 2 * padding_factor
        padded_width == RMul(RInt(max_x - min_x), <<7, 5>>)
        padded_height == RMul(RInt(max_y - min_y), <<7, 5>>)
    IN  [center |-> <<Rat(min_x + max_x, 2), Rat(min_y + max_y, 2)>>,
         zoom |-> IF RLt(<<0, 1>>, padded_width) /\ RLt(<<0, 1>>, padded_height)
                  THEN RMax(ZoomMin,
                            RMin(ZoomMax, RMin(RDiv(RInt(size[1]), padded_width),
                                               RDiv(RInt(size[2]), padded_height))))
                  ELSE <<1, 1>>]

\* _fit_to_design_extents()
FitToDesignExtentsHandler ==
    /\ IF polygon_vertices = <<>>
       THEN IF selected_item # 0 /\ ~TreeExists(tree, selected_item)
            THEN \* tree.item(...) raises TclError
                 UNCHANGED <<canvas_zoom, canvas_pan_x, canvas_pan_y, handles_moved,
                             project_boundary>>
            ELSE IF /\ selected_item # 0
                    /\ tree.data[selected_item].type = "project"
                    /\ DrawableDims(tree.data[selected_item])
            THEN /\ UNCHANGED handles_moved
                 /\ UpdateRulers
                 /\ canvas_pan_x' = <<0, 1>>
                 /\ canvas_pan_y' = <<0, 1>>
                 /\ canvas_zoom' = FitZoom(tree.data[selected_item].width.val,
                                           tree.data[selected_item].length.val,
                                           canvas_size)
            ELSE ResetViewHandler
       ELSE LET e == ExtentsZoom(polygon_vertices, canvas_size)
                center == CanvasCenter(canvas_size)
                pan_x == RSub(center[1], e.center[1])
                pan_y == RSub(center[2], e.center[2])
                reset == ResetItems(handles_moved)
                scaled == IF e.zoom # <<1, 1>>
                          THEN ScaleItems(reset, e.center[1], e.center[2], e.zoom)
                          ELSE reset
            IN  /\ handles_moved' = MoveItems(scaled, pan_x, pan_y)
                /\ UpdateRulers
                /\ canvas_zoom' = e.zoom
                /\ canvas_pan_x' = pan_x
                /\ canvas_pan_y' = pan_y

\* View > Fit to Design Extents: _fit_to_design_extents
FitToDesignExtents ==
    /\ Idle
    /\ zoom_steps' = zoom_steps
    /\ FitToDesignExtentsHandler
    /\ ViewFrame

\* the same, counted as a zoom step
FitStep ==
    /\ Idle
    /\ zoom_steps < MaxZoomSteps
    /\ zoom_steps' = zoom_steps + 1
    /\ FitToDesignExtentsHandler
    /\ ViewFrame

\* View > Fit to Region: _fit_to_region
FitToRegion ==
    /\ Idle
    /\ zoom_steps' = zoom_steps
    /\ IF selected_item = 0 \/ ~TreeExists(tree, selected_item)
       THEN UNCHANGED <<canvas_zoom, canvas_pan_x, canvas_pan_y, handles_moved,
                        project_boundary>>
       ELSE ResetViewHandler
    /\ ViewFrame

\* what a pan step leaves alone
PanFrame ==
    UNCHANGED <<tree, selection, select_pending, menu_posted, current_file,
                dragVars, selected_item, drawing_mode, polygon_vertices,
                selected_vertex, dragging_vertex, region_polygons,
                clear_button_visible, clear_button_enabled, canvas_zoom,
                has_auto_zoomed, current_project_item, retries, editing,
                shown_polygon, handles_origin, handles_home, drawn_projects,
                workspace_drawn, sizing_failed,
                canvas_size, prefVars, worldVars, plantVars, edits>>

\* <Button-2> on the canvas at p: _start_pan
StartPan(p) ==
    /\ Idle
    /\ mouse' = "pan"
    /\ is_panning' = TRUE
    /\ pan_start' = p
    /\ UNCHANGED <<canvas_pan_x, canvas_pan_y, zoom_steps, handles_moved,
                   project_boundary>>
    /\ PanFrame

\* <B2-Motion> on the canvas at p: _pan_canvas
PanCanvas(p) ==
    /\ mouse = "pan"
    /\ zoom_steps < MaxZoomSteps
    /\ zoom_steps' = zoom_steps + 1
    /\ mouse' = mouse
    /\ IF is_panning
       THEN /\ canvas_pan_x' = RAdd(canvas_pan_x, RInt(p[1] - pan_start[1]))
            /\ canvas_pan_y' = RAdd(canvas_pan_y, RInt(p[2] - pan_start[2]))
            /\ handles_moved' = MoveItems(handles_moved, RInt(p[1] - pan_start[1]),
                                           RInt(p[2] - pan_start[2]))
            /\ pan_start' = p
            /\ UpdateRulers
       ELSE UNCHANGED <<canvas_pan_x, canvas_pan_y, pan_start, handles_moved,
                        project_boundary>>
    /\ UNCHANGED is_panning
    /\ PanFrame

\* <ButtonRelease-2> on the canvas: _end_pan
EndPan ==
    /\ mouse = "pan"
    /\ mouse' = "up"
    /\ is_panning' = FALSE
    /\ UNCHANGED <<canvas_pan_x, canvas_pan_y, pan_start, zoom_steps, handles_moved,
                   project_boundary>>
    /\ PanFrame

\* pointer positions of wheel and pan events
WheelPoints == {<<105, 80>>}
PanStarts == {<<200, 150>>}
PanPoints == {<<200, 150>>, <<230, 130>>}

\* The view: a project is opened, nodes are selected, the view is zoomed,
\* panned, reset and fitted.
ViewStep ==
    \/ \E f \in ViewFiles : OpenProject(f)
    \/ \E row \in Items(tree) \cup {0} : TreePress(row)
    \/ TreeRelease
    \/ OnTreeSelect
    \/ \E factor \in {ZoomInFactor, ZoomOutFactor}, p \in WheelPoints : ZoomCanvas(factor, p)
    \/ ZoomIn
    \/ ZoomOut
    \/ ResetView
    \/ FitToDesignExtents
    \/ FitToRegion
    \/ \E p \in PanStarts : StartPan(p)
    \/ \E p \in PanPoints : PanCanvas(p)
    \/ EndPan

NextView == ViewStep

SpecView == Init /\ [][NextView]_vars

\* Editing under a moved view: the one region of a small project is
\* selected, a vertex is grabbed and dragged off the default rectangle, and
\* the view is panned, zoomed, reset and fitted.
HandleFiles == {3}
\* vertex 0 of the default rectangle; where its handle is displayed after a
\* pan by (30, -20)
HandlePoints == {<<105, 80>>, <<130, 55>>}
\* outside the default rectangle
HandleTargets == {<<60, 40>>}

NextHandles ==
    \/ \E f \in HandleFiles : current_file = 0 /\ OpenProject(f)
    \/ \E row \in Items(tree) : TreePress(row)
    \/ TreeRelease
    \/ OnTreeSelect
    \/ \E p \in HandlePoints : CanvasClick(p)
    \/ \E p \in HandleTargets : CanvasDrag(p)
    \/ CanvasRelease
    \/ \E factor \in {ZoomInFactor, ZoomOutFactor}, p \in WheelPoints : ZoomCanvas(factor, p)
    \/ ResetView
    \/ FitStep
    \/ \E p \in PanStarts : StartPan(p)
    \/ \E p \in PanPoints : PanCanvas(p)
    \/ EndPan

SpecHandles == Init /\ [][NextHandles]_vars

\* Auto-zoom: projects are opened, nodes selected, regions dragged in the
\* tree, the width and length of the project edited, and the zoom reset.
ZoomFiles == {1, 5}
\* what the user leaves in the width and length fields
PropertyEdits ==
    {<<Num(100, 1), Num(150, 1)>>, <<Num(2, 1), Num(2, 1)>>,
     <<EmptyStr, Num(150, 1)>>, <<TextStr, Num(150, 1)>>,
     <<Num(0, 1), Num(150, 1)>>, <<Num(100, 1), Num(-5, 1)>>}

NextZoom ==
    \/ \E f \in ZoomFiles : OpenProject(f)
    \/ \E row \in Items(tree) : TreePress(row)
    \/ \E p \in MotionPoints, row \in Items(tree), zone \in Zones : TreeMotion(p, row, zone)
    \/ TreeRelease
    \/ OnTreeSelect
    \/ \E e \in PropertyEdits : ApplyPropertyChange(e[1], e[2])
    \/ ResetView

SpecZoom == Init /\ [][NextZoom]_vars

(***************************************************************************)
(* The canvas before it has a size: the retries of _update_workspace.      *)
(***************************************************************************)
\* winfo_width() and winfo_height() of a canvas that is not mapped yet
UnmappedCanvas == <<1, 1>>
\* a canvas squeezed to less than 10 px in one direction only
NarrowCanvas == <<400, 9>>
CanvasSizes == {UnmappedCanvas, NarrowCanvas, MappedCanvas}

Sized == canvas_size[1] >= MinCanvasSize /\ canvas_size[2] >= MinCanvasSize

\* <Configure> on the canvas, which now measures `size`: _on_canvas_resize
CanvasConfigure(size) ==
    /\ size # canvas_size
    /\ canvas_size' = size
    /\ UpdateRulers
    /\ UNCHANGED <<treeVars, dragVars, selected_item, drawing_mode, polygon_vertices,
                   selected_vertex, dragging_vertex, region_polygons,
                   clear_button_visible, clear_button_enabled, canvas_zoom,
                   has_auto_zoomed, current_project_item, retries, editing,
                   shown_polygon, handles_origin, handles_moved, handles_home,
                   drawn_projects, workspace_drawn, sizing_failed,
                   canvas_pan_x, canvas_pan_y, is_panning, pan_start, zoom_steps,
                   prefVars, worldVars, plantVars, edits>>

\* the callback of root.after(100, lambda: self._update_workspace(name,
\* item_type, retry_count + 1)) runs
RetryUpdateWorkspace(r) ==
    /\ r \in retries
    /\ SetGUI(UpdateWorkspace([GUI EXCEPT !.retries = @ \ {r}], tree, canvas_size,
                              r.item_type, r.retry_count))
    /\ UNCHANGED <<treeVars, dragVars, viewVars, prefVars, worldVars, plantVars, edits>>

\* the event loop runs one of the pending callbacks
RetryStep == \E r \in retries : RetryUpdateWorkspace(r)

\* The window starts unmapped; a project is opened, nodes are selected while
\* no retry is pending, the canvas changes size, pending retries run.
RetryFiles == {3}

InitRetry == WindowInitSized(UnmappedCanvas) /\ NewRegenesis(SampleDatabase)

NextRetry ==
    \/ \E f \in RetryFiles : OpenProject(f)
    \/ \E row \in Items(tree) : TreePress(row)
    \/ TreeRelease
    \/ retries = {} /\ OnTreeSelect
    \/ \E size \in CanvasSizes : CanvasConfigure(size)
    \/ RetryStep

SpecRetry == InitRetry /\ [][NextRetry]_vars

(***************************************************************************)
(* Ruler ticks.                                                            *)
(***************************************************************************)
\* target_ticks
TargetTicks == 15

\* nice_intervals
NiceIntervals ==
    <<Rat(1, 10), Rat(1, 5), Rat(1, 2), RInt(1), RInt(2), RInt(5), RInt(10),
      RInt(20), RInt(50), RInt(100), RInt(200), RInt(500), RInt(1000)>>

\* _calculate_tick_interval with `interval > raw_interval` as its test
CalculateTickIntervalAbove(visible_range) ==
    LET raw_interval == RDiv(visible_range, RInt(TargetTicks))
        fits == {i \in DOMAIN NiceIntervals : RLt(raw_interval, NiceIntervals[i])}
    IN  IF fits = {} THEN NiceIntervals[Len(NiceIntervals)]
        ELSE NiceIntervals[CHOOSE i \in fits : \A j \in fits : i <= j]

\* _calculate_tick_interval(visible_range): the first interval of the list
\* with interval >= raw_interval, the last one if the loop finds none
CalculateTickInterval(visible_range) ==
    LET raw_interval == RDiv(visible_range, RInt(TargetTicks))
        fits == {i \in DOMAIN NiceIntervals : RLe(raw_interval, NiceIntervals[i])}
    IN  IF fits = {} THEN NiceIntervals[Len(NiceIntervals)]
        ELSE NiceIntervals[CHOOSE i \in fits : \A j \in fits : i <= j]

\* _update_rulers: the visible range of the canvas along one axis, in units
VisibleUnits(axis) ==
    RDiv(RInt(canvas_size[axis]), RMul(RInt(PixelsPerUnit), canvas_zoom))

\* what a call of _calculate_tick_interval leaves alone
TickFrame ==
    UNCHANGED <<treeVars, dragVars, guiVars, viewVars, prefVars, worldVars, plants,
                selected_plants, plot_width, plot_height, edits>>

\* the two calls of _calculate_tick_interval in _update_rulers
RulerTicks(axis) ==
    /\ Idle
    /\ returned' = [call |-> "_calculate_tick_interval",
                    value |-> <<VisibleUnits(axis),
                                CalculateTickInterval(VisibleUnits(axis))>>]
    /\ TickFrame

\* _calculate_tick_interval(visible_range) for a range given directly
TickIntervalOf(visible_range) ==
    /\ Idle
    /\ returned' = [call |-> "_calculate_tick_interval",
                    value |-> <<visible_range, CalculateTickInterval(visible_range)>>]
    /\ TickFrame

\* visible ranges: 15 times each nice interval, a hundredth more than that,
\* nothing, and ranges past 15 times the largest interval
TickRanges ==
    {RMul(RInt(TargetTicks), NiceIntervals[i]) : i \in DOMAIN NiceIntervals}
    \cup {RAdd(RMul(RInt(TargetTicks), NiceIntervals[i]), Rat(1, 100)) :
              i \in DOMAIN NiceIntervals}
    \cup {RInt(0), RInt(16000), RInt(40000)}

\* Rulers: a project is opened and selected (auto-zoom), the view is zoomed
\* in and out, and the tick interval is computed for each ruler and for the
\* ranges above.
NextRulers ==
    \/ \E f \in ViewFiles : current_file = 0 /\ OpenProject(f)
    \/ \E row \in Items(tree) : TreePress(row)
    \/ TreeRelease
    \/ OnTreeSelect
    \/ ZoomIn
    \/ ZoomOut
    \/ \E axis \in {1, 2} : RulerTicks(axis)
    \/ \E visible_range \in TickRanges : TickIntervalOf(visible_range)

SpecRulers == Init /\ [][NextRulers]_vars

(***************************************************************************)
(* Properties.                                                             *)
(***************************************************************************)
\* C1, as stated: every polygon the editor holds has at least 3 vertices,
\* polygon_vertices whenever drawing_mode is true and every value stored in
\* region_polygons.  Clear Shape refutes it.
EveryPolygonHasThreeVertices ==
    /\ drawing_mode => Len(polygon_vertices) >= MinVertices
    /\ \A item \in DOMAIN region_polygons : Len(region_polygons[item]) >= MinVertices

\* C1, amended: whenever drawing_mode is true polygon_vertices is empty (no
\* polygon, after Clear Shape) or has at least 3 vertices, and every value
\* stored in region_polygons has at least 3 vertices.
PolygonEmptyOrThreeVertices ==
    /\ drawing_mode => polygon_vertices = <<>> \/ Len(polygon_vertices) >= MinVertices
    /\ \A item \in DOMAIN region_polygons : Len(region_polygons[item]) >= MinVertices

\* C1: the polygon was cleared while a polygon cut down to 3 vertices is stored
ClearedWhileTriangleStored ==
    /\ drawing_mode /\ polygon_vertices = <<>>
    /\ \E item \in DOMAIN region_polygons : Len(region_polygons[item]) = MinVertices

\* C2: a Ctrl-click in drawing mode on a polygon of 3 vertices or fewer changes
\* neither polygon_vertices nor selected_vertex; on a polygon of more than 3
\* vertices with a vertex within 10 px of the click, the lowest-indexed such
\* vertex is removed, the others keep their order, and selected_vertex is
\* decremented if it was after the removed index, None if it was the removed
\* one, and unchanged otherwise.
CtrlClickDeletesVertex ==
    [][\A p \in CanvasPoints : drawing_mode /\ CanvasRightClick(p) =>
          LET n == Len(polygon_vertices)
              near == {i \in 1..n :
                          Sq(polygon_vertices[i][1] - p[1])
                              + Sq(polygon_vertices[i][2] - p[2]) <= Sq(VertexThreshold)}
              k == CHOOSE i \in near : \A j \in near : i <= j
          IN  IF n <= MinVertices
              THEN polygon_vertices' = polygon_vertices /\ selected_vertex' = selected_vertex
              ELSE near # {} =>
                    /\ polygon_vertices' = [i \in 1..(n - 1) |->
                                               IF i < k THEN polygon_vertices[i]
                                               ELSE polygon_vertices[i + 1]]
                    /\ selected_vertex' =
                          IF selected_vertex = NoVertex \/ selected_vertex + 1 = k
                          THEN NoVertex
                          ELSE IF selected_vertex + 1 > k THEN selected_vertex - 1
                          ELSE selected_vertex
      ]_vars

\* C2: vertex 2 of the default rectangle was selected and vertex 0 then deleted
SelectedVertexFollowedDeletion ==
    /\ drawing_mode
    /\ polygon_vertices = <<<<300, 75>>, <<300, 225>>, <<100, 225>>>>
    /\ selected_vertex = 1

\* C3: no step other than opening a project file removes or changes a
\* project-typed node, no step leaves a project-typed node with a parent, a
\* delete of a project node leaves the tree unchanged, and the drag item is
\* never a project node.
ProjectNodeStaysRoot ==
    [][/\ \A i \in Items(tree') : tree'.data[i].type = "project" => tree'.parent[i] = 0
       /\ drag_item' # 0 => /\ drag_item' \in Items(tree')
                            /\ tree'.data[drag_item'].type # "project"
       /\ (\A f \in TreeFiles : ~OpenProject(f)) =>
             \A i \in Items(tree) : tree.data[i].type = "project" =>
                 i \in Items(tree') /\ tree'.data[i] = tree.data[i]
       /\ \A proceed \in BOOLEAN :
             (/\ DeleteItem(proceed)
              /\ selected_item \in Items(tree)
              /\ tree.data[selected_item].type = "project") => tree' = tree
      ]_vars

\* C3: a region was dropped above the project node and is now a top-level
\* item, next to the project node
RegionBesideProject ==
    /\ \E i \in Items(tree) : tree.data[i].type = "region" /\ tree.parent[i] = 0
    /\ \E i \in Items(tree) : tree.data[i].type = "project" /\ tree.parent[i] = 0

\* C4: when the selection handler makes a region the edited one again, after
\* another node or none was, polygon_vertices is what it was when that region
\* was last the edited one.
PolygonsPersist ==
    [][(editing' # 0 /\ editing' # editing /\ editing' \in DOMAIN shown_polygon) =>
          polygon_vertices' = shown_polygon[editing']
      ]_vars

\* C5: when the selection handler completes for a region, drawing_mode is true
\* and polygon_vertices has at least 3 vertices: the polygon region_polygons
\* holds for the region if it holds one, otherwise a rectangle of 4 vertices
\* whose centre is the canvas centre; when it completes for a project,
\* drawing_mode is false.
SelectionSetsDrawingMode ==
    [][(/\ OnTreeSelect
        /\ selection # 0
        /\ canvas_size[1] >= MinCanvasSize /\ canvas_size[2] >= MinCanvasSize) =>
          IF tree.data[selection].type = "region"
          THEN /\ drawing_mode'
               /\ Len(polygon_vertices') >= MinVertices
               /\ IF selection \in DOMAIN region_polygons'
                  THEN polygon_vertices' = region_polygons'[selection]
                  ELSE LET v == polygon_vertices'
                       IN  /\ Len(v) = 4
                           /\ v[1][2] = v[2][2] /\ v[2][1] = v[3][1]
                           /\ v[3][2] = v[4][2] /\ v[4][1] = v[1][1]
                           /\ v[1][1] < v[2][1] /\ v[2][2] < v[3][2]
                           /\ v[1][1] + v[3][1] = canvas_size[1]
                           /\ v[1][2] + v[3][2] = canvas_size[2]
          ELSE ~drawing_mode'
      ]_vars

\* C5: a region is shown with its saved polygon, which is not the default one
SavedPolygonShown ==
    /\ drawing_mode /\ ~select_pending
    /\ editing # 0 /\ editing = selected_item
    /\ editing \in DOMAIN region_polygons
    /\ polygon_vertices = region_polygons[editing]
    /\ polygon_vertices # CenteredRectangle(canvas_size, DefaultRectWidth, DefaultRectHeight)

\* C6: after every step canvas_zoom is within [0.01, 10.0], and a wheel or
\* menu zoom step whose factor would take the zoom above 10.0 or below 0.01
\* leaves canvas_zoom and both pan offsets unchanged.
ZoomStaysInRange ==
    [][/\ RLe(ZoomMin, canvas_zoom') /\ RLe(canvas_zoom', ZoomMax)
       /\ (/\ ZoomIn \/ \E p \in WheelPoints : ZoomCanvas(ZoomInFactor, p)
           /\ 11 * canvas_zoom[1] > 100 * canvas_zoom[2]) =>
             UNCHANGED <<canvas_zoom, canvas_pan_x, canvas_pan_y>>
       /\ (/\ ZoomOut \/ \E p \in WheelPoints : ZoomCanvas(ZoomOutFactor, p)
           /\ 90 * canvas_zoom[1] < canvas_zoom[2]) =>
             UNCHANGED <<canvas_zoom, canvas_pan_x, canvas_pan_y>>
      ]_vars

\* C6: the zoom is at its lower limit after a project was drawn and zoom
\* steps were taken
ZoomAtLowerLimit ==
    canvas_zoom = ZoomMin /\ has_auto_zoomed /\ zoom_steps > 0

\* C7: when a project's rectangle is drawn for the first time and, at the zoom
\* then in effect, the rectangle enlarged by the margin exceeds the canvas in
\* width or height, canvas_zoom is not raised and afterwards the rectangle
\* enlarged by the margin fits the canvas in width and height, or canvas_zoom
\* is 0.01.
AutoZoomFitsRectangle ==
    [][(/\ has_auto_zoomed'
        /\ ~has_auto_zoomed \/ current_project_item' # current_project_item) =>
          LET d == tree.data[current_project_item']
              required_width(zoom) ==
                  RMul(RMul(RMul(d.width.val, RInt(PixelsPerUnit)), zoom), MarginFactor)
              required_height(zoom) ==
                  RMul(RMul(RMul(d.length.val, RInt(PixelsPerUnit)), zoom), MarginFactor)
              fits(zoom) == /\ RLe(required_width(zoom), RInt(canvas_size[1]))
                            /\ RLe(required_height(zoom), RInt(canvas_size[2]))
          IN  ~fits(canvas_zoom) =>
                 /\ RLe(canvas_zoom', canvas_zoom)
                 /\ fits(canvas_zoom') \/ canvas_zoom' = ZoomMin
      ]_vars

\* C8: a unit of world space is 50 * zoom pixels, world-to-screen undoes
\* screen-to-world, and an accepted wheel or menu zoom step multiplies the zoom
\* by its factor and leaves (mouse - center - pan) / (50 * zoom) at the
\* pointer position unchanged on both axes.
ZoomKeepsPointUnderCursor ==
    [][\A factor \in {ZoomInFactor, ZoomOutFactor} :
       \A p \in WheelPoints \cup {<<canvas_size[1] \div 2, canvas_size[2] \div 2>>} :
          (ZoomCanvas(factor, p) /\ canvas_zoom' # canvas_zoom) =>
             LET c == CanvasCenter(canvas_size)
             IN  /\ canvas_zoom' = RMul(canvas_zoom, factor)
                 /\ ToWorld(p[1], c[1], canvas_pan_x', canvas_zoom')
                       = ToWorld(p[1], c[1], canvas_pan_x, canvas_zoom)
                 /\ ToWorld(p[2], c[2], canvas_pan_y', canvas_zoom')
                       = ToWorld(p[2], c[2], canvas_pan_y, canvas_zoom)
                 /\ ToScreen(ToWorld(p[1], c[1], canvas_pan_x', canvas_zoom'),
                             c[1], canvas_pan_x', canvas_zoom') = RInt(p[1])
                 /\ ToScreen(ToWorld(p[2], c[2], canvas_pan_y', canvas_zoom'),
                             c[2], canvas_pan_y', canvas_zoom') = RInt(p[2])
                 /\ RSub(ToScreen(<<1, 1>>, c[1], canvas_pan_x', canvas_zoom'),
                         ToScreen(<<0, 1>>, c[1], canvas_pan_x', canvas_zoom'))
                       = RMul(RInt(50), canvas_zoom')
      ]_vars

\* C8: the wheel zoomed the empty canvas about a point off its centre
ZoomedAboutPointer ==
    current_file = 0 /\ canvas_zoom # <<1, 1>> /\ canvas_pan_x # <<0, 1>>

\* C9: a motion of a gesture with a drag item makes it a drag exactly when it
\* already was one or the pointer is more than 5 px from the press position on
\* the x axis or on the y axis, and it leaves the tree unchanged; the
\* release of a gesture that is not a drag leaves the tree unchanged and
\* clears drag item, drop target and drop position.
DragNeedsMoreThanThreshold ==
    [][/\ \A p \in MotionPoints :
             \/ /\ tree' = tree
                /\ has_moved' <=>
                      \/ has_moved
                      \/ /\ drag_item # 0
                         /\ \/ p[1] - drag_start[1] > DragThreshold
                            \/ drag_start[1] - p[1] > DragThreshold
                            \/ p[2] - drag_start[2] > DragThreshold
                            \/ drag_start[2] - p[2] > DragThreshold
             \/ ~ \E row \in Items(tree) \cup {0}, zone \in Zones :
                     TreeMotion(p, row, zone)
       /\ (TreeRelease /\ ~has_moved) =>
             /\ tree' = tree
             /\ drag_item' = 0 /\ drop_target' = 0 /\ drop_position' = "none"
      ]_vars

\* C9: the gesture became a drag and has a drop target
DragUnderWay ==
    mouse = "tree" /\ drag_item # 0 /\ has_moved /\ drop_target # 0

\* C10: set(key, v) with v not None does not raise, get(key) then returns v
\* and get of every other key returns what it returned before; get_location
\* returns the pair of latitude and longitude when both are not None and None
\* otherwise; set_location(None, None) leaves get_location returning None.
SetThenGetReturnsValue ==
    [][/\ \A key \in PrefKeys : \A value \in PrefValues(key) :
             PrefSet(key, value) =>
                /\ raised' = ""
                /\ PrefGet(preferences', key, PyNone) = value
                /\ \A other \in PrefKeys \ {key} :
                      PrefGet(preferences', other, PyNone)
                          = PrefGet(preferences, other, PyNone)
       /\ LET lat == PrefGet(preferences', "location.latitude", PyNone)
              lon == PrefGet(preferences', "location.longitude", PyNone)
          IN  GetLocation(preferences') =
                  IF lat = PyNone \/ lon = PyNone THEN <<>> ELSE <<lat, lon>>
       /\ SetLocation(PyNone, PyNone) =>
             raised' = "" /\ GetLocation(preferences') = <<>>
      ]_vars

\* C11: filter_plants_by_height(min_height, max_height) returns, in database
\* order, exactly the plants whose height is >= min_height when a minimum is
\* given (not None) and <= max_height when a maximum is given, 0 included.
FilterReturnsPlantsInBounds ==
    [][\A min_height \in HeightBounds, max_height \in HeightBounds :
          /\ returned'.call = "filter_plants_by_height"
          /\ FilterPlantsByHeight(min_height, max_height)
          =>
             LET InBounds(plant) ==
                     /\ min_height # None => plant.height >= min_height[1]
                     /\ max_height # None => plant.height <= max_height[1]
             IN  returned'.value = SelectSeq(plants, InBounds)
      ]_vars

\* sum(counts.values()) over the given colours
RECURSIVE SumCounts(_, _)
SumCounts(counts, colors) ==
    IF colors = {} THEN 0
    ELSE LET c == CHOOSE x \in colors : TRUE
         IN  counts[c] + SumCounts(counts, colors \ {c})

\* C12: get_color_distribution maps each colour to the number of entries of
\* selected_plants with that colour, has no colour with count 0, and its
\* counts sum to len(selected_plants).
ColorDistributionCounts ==
    [][returned'.call = "get_color_distribution" /\ GetColorDistribution =>
          LET counts == returned'.value
              Entries(c) == {i \in 1..Len(selected_plants) : selected_plants[i].color = c}
          IN  /\ DOMAIN counts = {c \in Colors : Entries(c) # {}}
              /\ \A c \in DOMAIN counts : counts[c] = Cardinality(Entries(c)) /\ counts[c] > 0
              /\ SumCounts(counts, DOMAIN counts) = Len(selected_plants)
      ]_vars

\* C12: the distribution was asked for with the same plant selected twice
SamePlantCountedTwice ==
    /\ returned.call = "get_color_distribution"
    /\ Len(selected_plants) = 2
    /\ selected_plants[1] = selected_plants[2]


\* C13: after PreferencesManager has loaded a preferences file, the in-memory
\* preferences hold exactly the default keys, location being a dict with
\* latitude and longitude, and no later get or set call on them raises.
LoadedPreferencesComplete ==
    /\ raised = ""
    /\ pref_calls = 0 =>
          /\ preferences.kind = "dict"
          /\ DOMAIN preferences.items = DOMAIN DefaultPreferences.items
          /\ preferences.items["location"].kind = "dict"
          /\ {"latitude", "longitude"} \subseteq DOMAIN preferences.items["location"].items


\* C14: when the selection handler leaves drawing mode because a node is
\* selected, the polygon being edited (if the region still exists and its
\* polygon was not cleared) is stored in region_polygons under the id of the
\* region it was loaded for, and no other entry changes.
PolygonStoredUnderItsRegion ==
    [][/\ OnTreeSelect
       /\ selection # 0
       /\ drawing_mode /\ polygon_vertices # <<>>
       /\ editing # 0 /\ TreeExists(tree, editing)
       =>
          region_polygons' = DictSet(region_polygons, editing, polygon_vertices)
      ]_vars


\* C15: every key of region_polygons is the id of a region node that exists
\* in the tree.
PolygonKeysAreRegions ==
    \A item \in DOMAIN region_polygons :
        TreeExists(tree, item) /\ tree.data[item].type = "region"


\* C16: a completed drop of region R keeps its polygon: the node that
\* replaces R (the first id the clone is given) has R's polygon in
\* region_polygons afterwards, and every polygon of a region of R's subtree
\* is still the polygon of a node of the tree.
DropKeepsPolygon ==
    [][TreeRelease /\ tree' # tree =>
          /\ drag_item \in DOMAIN region_polygons =>
                /\ tree.next \in DOMAIN region_polygons'
                /\ region_polygons'[tree.next] = region_polygons[drag_item]
          /\ \A item \in Subtree(tree, drag_item) \cap DOMAIN region_polygons :
                \E new \in Items(tree') \cap DOMAIN region_polygons' :
                    /\ tree'.data[new] = tree.data[item]
                    /\ region_polygons'[new] = region_polygons[item]
      ]_vars


\* C17: the project stays the only top-level item: every top-level item is a
\* project node, there is at most one, and every region is its descendant.
ProjectIsOnlyTopLevelItem ==
    /\ Len(tree.children[0]) <= 1
    /\ \A item \in Items(tree) :
          IF tree.parent[item] = 0
          THEN tree.data[item].type = "project"
          ELSE IsDescendant(tree, tree.children[0][1], item)


\* C18: whenever drawing_mode is true, selected_item is a region node that
\* exists in the tree.
DrawingModeHasRegionSelected ==
    drawing_mode =>
        /\ selected_item # 0
        /\ TreeExists(tree, selected_item)
        /\ tree.data[selected_item].type = "region"


\* C19: selected_vertex is None or an index of polygon_vertices.
SelectedVertexInRange ==
    selected_vertex = NoVertex
        \/ (0 <= selected_vertex /\ selected_vertex < Len(polygon_vertices))


\* C20: in drawing mode a click within 10 px of a vertex selects the
\* lowest-indexed such vertex and inserts nothing; otherwise a click within
\* 10 px of an edge (the closing edge included) inserts the clicked point
\* after the first vertex of the lowest-indexed such edge, keeps the other
\* vertices in order and selects the new vertex, unless the polygon already
\* has 15 vertices, and then polygon and selection stay as they are; no
\* polygon ever has more than 15 vertices.
ClickSelectsOrInserts ==
    [][/\ Len(polygon_vertices') <= MaxVertices
       /\ \A item \in DOMAIN region_polygons' :
             Len(region_polygons'[item]) <= MaxVertices
       /\ mouse = "up" /\ mouse' = "canvas" /\ drawing_mode =>
          \A p \in InsertPoints \cup CanvasPoints :
             CanvasPress(p) =>
                LET v == polygon_vertices
                    n == Len(v)
                    near_vertices == {i \in 1..n : Near(p, v[i], VertexThreshold)}
                    near_edges == {i \in 1..n :
                                      SegmentNear(p, v[i], v[(i % n) + 1], VertexThreshold)}
                    first_vertex == CHOOSE i \in near_vertices :
                                        \A j \in near_vertices : i <= j
                    first_edge == CHOOSE i \in near_edges : \A j \in near_edges : i <= j
                IN  IF near_vertices # {}
                    THEN polygon_vertices' = v /\ selected_vertex' = first_vertex - 1
                    ELSE IF near_edges # {} /\ n >= 2 /\ n < MaxVertices
                    THEN /\ polygon_vertices' =
                                SubSeq(v, 1, first_edge) \o <<p>>
                                    \o SubSeq(v, first_edge + 1, n)
                         /\ selected_vertex' = first_edge
                    ELSE polygon_vertices' = v /\ selected_vertex' = selected_vertex
      ]_vars

\* C20: a press on an edge of a polygon of 15 vertices was refused: the
\* button is down on the canvas with no vertex grabbed, every insert point is
\* a vertex or within reach of an edge, and the selected vertex is still the
\* first one ever inserted
InsertRefusedAtLimit ==
    /\ mouse = "canvas" /\ drawing_mode /\ ~dragging_vertex
    /\ Len(polygon_vertices) = MaxVertices
    /\ selected_vertex # NoVertex
    /\ selected_vertex < Len(polygon_vertices)
    /\ polygon_vertices[selected_vertex + 1] = <<113, 65>>
    /\ \A p \in InsertPoints :
          \/ FindVertexAt(polygon_vertices, p) # NoVertex
          \/ FindEdgeAt(polygon_vertices, p) # NoVertex

\* C21, as stated: while a region is edited and its polygon is displayed,
\* the handle of every vertex is displayed at that vertex's coordinates in
\* polygon_vertices, after every operation.
HandlesAtVertices ==
    drawing_mode /\ handles_origin # <<>> =>
        /\ DOMAIN handles_origin = DOMAIN polygon_vertices
        /\ \A i \in DOMAIN polygon_vertices :
              VertexHandles[i] = <<RInt(polygon_vertices[i][1]),
                                   RInt(polygon_vertices[i][2])>>

\* C22, as stated: handles that were created at p0 while the pan was (0, 0)
\* and the zoom 1.0 are displayed, after any sequence of view operations, at
\* canvas_center + pan + (p0 - canvas_center) * canvas_zoom on both axes.
HandlesFollowView ==
    handles_home =>
        LET center == CanvasCenter(canvas_size)
            At(c, center_c, pan) ==
                RAdd(RAdd(center_c, pan), RMul(RSub(RInt(c), center_c), canvas_zoom))
        IN  \A i \in DOMAIN handles_origin :
                VertexHandles[i] =
                    <<At(handles_origin[i][1], center[1], canvas_pan_x),
                      At(handles_origin[i][2], center[2], canvas_pan_y)>>

\* C23, as stated: auto-zoom is applied at most once per project and only
\* lowers the zoom. In every step that redraws the workspace (a selection or
\* a property edit) with the top-level item `root` of the selected item:
\*   - canvas_zoom does not rise;
\*   - a drawn rectangle leaves _has_auto_zoomed set;
\*   - if the rectangle of `root` was drawn before, canvas_zoom is unchanged;
\*   - the flag goes from set to cleared only if another root is displayed;
\*   - if the width or length of `root` is empty, not a number or not
\*     positive, canvas_zoom is unchanged, the flag is as it was unless the
\*     root is another one, and no rectangle is on the canvas.
AutoZoomOncePerProject ==
    [][((select_pending /\ selection # 0 /\ OnTreeSelect)
            \/ (Idle /\ mouse' = "up" /\ zoom_steps' = zoom_steps
                /\ \E e \in PropertyEdits : ApplyPropertyChange(e[1], e[2])))
        =>
        LET root == IF selected_item' # 0 /\ TreeExists(tree', selected_item')
                    THEN TopAncestor(tree', selected_item')
                    ELSE 0
        IN  /\ ~RLt(canvas_zoom, canvas_zoom')
            /\ project_boundary' => has_auto_zoomed'
            /\ root \in drawn_projects => canvas_zoom' = canvas_zoom
            /\ has_auto_zoomed /\ ~has_auto_zoomed' => root # current_project_item
            /\ root # 0 /\ ~DrawableDims(tree'.data[root]) =>
                  /\ canvas_zoom' = canvas_zoom
                  /\ has_auto_zoomed' = (has_auto_zoomed /\ root = current_project_item)
                  /\ ~project_boundary'
      ]_vars

UnsizedCallRetries ==
    [][~Sized =>
        /\ (select_pending /\ selection # 0 /\ retries = {} /\ OnTreeSelect) =>
              /\ handles_origin' = <<>> /\ ~project_boundary' /\ ~workspace_drawn'
              /\ polygon_vertices' = polygon_vertices
              /\ retries' = {[item_type |-> tree.data[selection].type, retry_count |-> 1]}
        /\ \A r \in retries : RetryUpdateWorkspace(r) =>
              /\ handles_origin' = <<>> /\ ~project_boundary' /\ ~workspace_drawn'
              /\ drawing_mode' = drawing_mode
              /\ polygon_vertices' = polygon_vertices
              /\ r.retry_count <= MaxRetries
              /\ IF r.retry_count < MaxRetries
                 THEN /\ retries' = (retries \ {r}) \cup
                                        {[r EXCEPT !.retry_count = @ + 1]}
                      /\ sizing_failed' = sizing_failed
                 ELSE /\ retries' = retries \ {r}
                      /\ sizing_failed']_vars

\* C25: a retry of _update_workspace that runs while the canvas is at least
\* 10 x 10 px draws the workspace.
SizedRetryDraws ==
    [][\A r \in retries : (Sized /\ RetryUpdateWorkspace(r)) => workspace_drawn']_vars

\* C26: a completed drop puts a copy of the dragged subtree, with the same
\* texts, values, tags and child order, right before the target ('above'),
\* right after it ('below') or as its last child ('inside', a project or
\* region target), removes the dragged items, keeps the number of items, and
\* its target is neither the dragged item nor one of its descendants.
DropMovesSubtree ==
    [][(/\ mouse = "tree" /\ has_moved /\ drag_item # 0
        /\ drop_target # 0 /\ drop_position # "none"
        /\ tree.parent[drag_item] # 0
        /\ TreeReleaseWithin(MaxDropItems)) =>
       LET new_item == tree.next
           siblings == tree'.children[tree'.parent[drop_target]]
           inside == tree'.children[drop_target]
       IN  /\ drop_target \notin Subtree(tree, drag_item)
           /\ Subtree(tree, drag_item) \cap Items(tree') = {}
           /\ Cardinality(Items(tree')) = Cardinality(Items(tree))
           /\ new_item \in Items(tree')
           /\ SerializeItem(tree', new_item) = SerializeItem(tree, drag_item)
           /\ drop_position = "above" =>
                 \E k \in DOMAIN siblings :
                     /\ siblings[k] = new_item
                     /\ k + 1 \in DOMAIN siblings /\ siblings[k + 1] = drop_target
           /\ drop_position = "below" =>
                 \E k \in DOMAIN siblings :
                     /\ siblings[k] = drop_target
                     /\ k + 1 \in DOMAIN siblings /\ siblings[k + 1] = new_item
           /\ drop_position = "inside" =>
                 /\ tree.data[drop_target].type \in {"project", "region"}
                 /\ inside # <<>> /\ inside[Len(inside)] = new_item]_vars

\* the region with two regions inside has been dropped inside the region
\* that was beside it
SubtreeDroppedInside ==
    \E i \in Items(tree) :
        /\ i \notin 1..FilesSize(ProjectFiles[6])
        /\ Len(tree.children[i]) = 2
        /\ tree.parent[i] # 0 /\ tree.data[tree.parent[i]].text = "Lawn"

RECURSIVE SameSubtree(_, _, _, _)
\* item i1 of tree t1 and item i2 of tree t2 carry the same text, values and
\* tags and have pairwise equal subtrees below them, in the same order
SameSubtree(t1, i1, t2, i2) ==
    /\ t1.data[i1] = t2.data[i2]
    /\ Len(t1.children[i1]) = Len(t2.children[i2])
    /\ \A k \in DOMAIN t1.children[i1] :
           SameSubtree(t1, t1.children[i1][k], t2, t2.children[i2][k])

SameTree(t1, t2) ==
    /\ Len(t1.children[0]) = Len(t2.children[0])
    /\ \A k \in DOMAIN t1.children[0] :
           SameSubtree(t1, t1.children[0][k], t2, t2.children[0][k])

\* C27: File > Save As writes the items of the tree, in order, with their
\* text, values and tags and nothing else; opening the saved file replaces
\* the tree shown, whatever it is, by new items of the saved shape (the
\* shape of the tree shown if it was not changed since), and region_polygons
\* is left as it was, so no loaded item has a polygon.
SaveLoadRebuildsTree ==
    [][/\ SaveAsProject =>
            /\ saved_file'.tree = SerializeTree(tree)
            /\ region_polygons' = region_polygons
       /\ (Idle /\ saved_file.kind = "tree" /\ OpenSaved) =>
            /\ SerializeTree(tree') = saved_file.tree
            /\ SerializeTree(tree) = saved_file.tree => SameTree(tree, tree')
            /\ Items(tree') \cap Items(tree) = {}
            /\ region_polygons' = region_polygons
            /\ DOMAIN region_polygons' \cap Items(tree') = {}]_vars

\* a saved project with a region inside a region has been opened over a
\* tree of another shape, with a polygon in memory
SavedTreeReopened ==
    /\ current_file = SavedName /\ message = "Project Opened"
    /\ \E i \in Items(tree) : tree.parent[i] # 0 /\ tree.parent[tree.parent[i]] # 0
    /\ \E i \in DOMAIN region_polygons : i \notin Items(tree)
    /\ tree.next > 1 + 2 * FilesSize(ProjectFiles[2])

\* C28: when opening a file fails the error is reported and the tree and
\* current_file are as before.
OpenFailureKeepsState ==
    [][\A content \in BrokenFiles :
          (Idle /\ OpenBroken(content)) =>
              /\ message' = "Error"
              /\ current_file' = current_file
              /\ tree' = tree]_vars

\* C29: when the second window sets a key while the file holds what the
\* first window wrote, the file afterwards holds the second window's value
\* for that key and the first window's values for every other key.
NoLostPreference ==
    [][\A k2 \in PrefKeys : \A value \in PrefValues(k2) :
          (/\ other_preferences.kind = "dict"
           /\ prefs_file = JsonDump(preferences)
           /\ OtherPrefSet(k2, value)) =>
              /\ PrefGet(JsonLoad(prefs_file'), k2, PyNone) = value
              /\ \A k1 \in PrefKeys \ {k2} :
                    PrefGet(JsonLoad(prefs_file'), k1, PyNone) =
                        PrefGet(preferences, k1, PyNone)]_vars

\* C30 as amended: load_from_file of the file that save_to_file wrote for a
\* selection and dimensions restores the dimensions, and the selection
\* without the plants that equal no plant of the database, in the same order
\* and with duplicates kept, whatever the instance holds at the time.
LoadRestoresDatabasePlants ==
    [][LoadFromFile =>
          \A selected \in Selections, width, height \in {None} \cup {Some(10), Some(15)} :
              plot_file = PlotData(selected, width, height) =>
                  /\ plot_width' = width
                  /\ plot_height' = height
                  /\ selected_plants' = SelectSeq(selected,
                                                  LAMBDA p : p \in Range(plants))]_vars

\* C30: load_from_file of the file that save_to_file wrote for a selection
\* and dimensions restores exactly that selection and those dimensions.
LoadRestoresSaved ==
    [][LoadFromFile =>
          \A selected \in Selections, width, height \in {None} \cup {Some(10), Some(15)} :
              plot_file = PlotData(selected, width, height) =>
                  /\ plot_width' = width
                  /\ plot_height' = height
                  /\ selected_plants' = selected]_vars

\* a file with a plant of the database and a plant of the caller's has been
\* loaded over another selection
LoadedWithOneSkipped ==
    /\ returned.call = "load_from_file"
    /\ Len(plot_file.selected_plants) = 2
    /\ Len(selected_plants) = 1
    /\ plot_width # None

=============================================================================
